---- MODULE Spec2Model ----
(***************************************************************************)
(* Model of the overlaybd filesystem adaptor layer (fs/asyncfs.cpp) and of *)
(* the throttled file decorator (fs/throttled-file.cpp).                   *)
(*                                                                         *)
(* The module holds several state machines over disjoint variable groups:  *)
(*   SpecAdaptor  - adaptor construction, forwarding and destruction       *)
(*   SpecTh, SpecAsync, SpecExport - the three performers                  *)
(*   SpecThrottle - ThrottledFile: semaphores, accounting queues, split_io *)
(*   SpecQueue    - one StatisticsQueue shared by cooperative tasks        *)
(* Each specification leaves the other groups unchanged.                   *)
(***************************************************************************)
EXTENDS Integers, Sequences, FiniteSets, TLC

VARIABLES
    \* ---- adaptor group (asyncfs.cpp, Adaptor / FileAdaptor / FSAdaptor) ----
    uifs,       \* underlying objects: Seq of [kind, xattr, deleted]
    adaptors,   \* adaptors built so far: Seq of [kind, perf, uif, xuif, alive]
    lastCall,   \* the last adaptor operation and what it invoked underneath
    \* ---- performer group (asyncfs.cpp, th_performer / AsyncPerformer /
    \*      ExportPerformer) ----
    cpu,        \* cooperative task running on the runtime's thread, or "none"
    clock,      \* time, in units of the async timeout's resolution
    pcA,        \* position of cooperative task A, the caller of adaptor operations
    callA,      \* A's operation in progress: [n, perf, slot, start, deadline, ucomp, wokenAt]
    ncalls,     \* operations A has started
    resA,       \* what A's last finished operation returned and observed
    pcB,        \* position of cooperative task B (computes 42; may interrupt A)
    nforeign,   \* thread_interrupt calls B has made on A
    wk,         \* OS threads spawned by th_performer::do_call, one per operation
    intq,       \* safe_thread_interrupt requests queued for A, by operation
    errno,      \* the thread-local errno of every OS thread
    blocking,   \* OS threads that are inside a blocking underlying call
    pcX,        \* position of OS thread X, the caller through ExportPerformer
    waiter,     \* X's AsyncWaiter: [mtx, got_it, ret, pending, ures]
    nxcalls,    \* operations X has started
    resX,       \* what X's last finished operation returned and observed
    \* ---- accounting queue group (throttled-file.cpp, StatisticsQueue) ----
    now,        \* photon::now / 1024: the time in "milliseconds" of 1024 us
    sq,         \* the StatisticsQueue under test
    sqcfg,      \* what it was built from: [rate, window]
    sqtask,     \* cooperative tasks calling push_back: [pc, amount, wake]
    sqreq,      \* sum of the amounts of all push_back calls started
    sqn,        \* number of push_back calls started
    sqsusp,     \* TRUE once a push_back has parked or yielded
    \* ---- throttled file group (throttled-file.cpp, ThrottledFile) ----
    tlim,       \* m_limits: the ThrottleLimits the file was built with
    taken,      \* permits taken from t_all / t_read / t_write .num_io
    tq,         \* the iops and throughput queues of t_all / t_read / t_write
    tt,         \* cooperative tasks doing IO on the throttled file
    tios,       \* IOs started
    tlog,       \* the IOs that reached the underlying file in the last second
    \* ---- split IO group (throttled-file.cpp, split_io, split_iovector_view) ----
    sfile,      \* the bytes of the underlying file, by offset (0: never written)
    sbuf,       \* the bytes of the buffer the caller reads into, by address
    sio,        \* the IO in progress: split_io's locals and the iovec view
    scalls,     \* the calls of the underlying operation made by the latest IO
    sres,       \* the IOs that have returned, in order, as their caller sees them
    \* ---- cache store group (cache_store.cpp, FileCacheStore) ----
    cpool,      \* the cache pool: [lru, space, recycle]
    clocal,     \* disk blocks of the local file of every store
    clast       \* the latest operation on a store and what it returned

adaptorVars == <<uifs, adaptors, lastCall>>
queueVars == <<now, sq, sqcfg, sqtask, sqreq, sqn, sqsusp>>
throttleVars == <<tlim, taken, tq, tt, tios, tlog>>
splitVars == <<sfile, sbuf, sio, scalls, sres>>
cacheVars == <<cpool, clocal, clast>>
otherThanAdaptor == <<cpu, clock, pcA, callA, ncalls, resA, pcB, nforeign, wk, intq,
                      errno, blocking, pcX, waiter, nxcalls, resX, queueVars, throttleVars,
                      splitVars, cacheVars>>
otherThanPerf == <<uifs, adaptors, lastCall, queueVars, throttleVars, splitVars,
                   cacheVars>>
otherThanQueue == <<uifs, adaptors, lastCall, cpu, clock, pcA, callA, ncalls, resA, pcB,
                    nforeign, wk, intq, errno, blocking, pcX, waiter, nxcalls, resX,
                    throttleVars, splitVars, cacheVars>>
otherThanThrottle == <<uifs, adaptors, lastCall, cpu, clock, pcA, callA, ncalls, resA, pcB,
                       nforeign, wk, intq, errno, blocking, pcX, waiter, nxcalls, resX,
                       sq, sqcfg, sqtask, sqreq, sqn, sqsusp, splitVars, cacheVars>>
perfVars == <<cpu, clock, pcA, callA, ncalls, resA, pcB, nforeign, wk, intq,
              errno, blocking, pcX, waiter, nxcalls, resX>>
otherThanSplit == <<adaptorVars, perfVars, queueVars, throttleVars, cacheVars>>
otherThanCache == <<adaptorVars, perfVars, queueVars, throttleVars, splitVars>>

\* ------------------------------------------------------------------------
\* Bounds of the adaptor model
\* ------------------------------------------------------------------------
MaxObj == 2          \* underlying objects created in one behaviour
MaxArg == 1          \* distinct argument tuples a caller may pass

Kinds == {"file", "dir", "fs"}
Performers == {"th", "async", "export"}
Args == 1..MaxArg
Rets == {-1, 0}

\* ------------------------------------------------------------------------
\* Operation tables, one name per virtual method of the adaptor classes
\* ------------------------------------------------------------------------
FileOps ==
    {"close", "read", "readv", "readv_mutable", "write", "writev",
     "writev_mutable", "pread", "pwrite", "preadv", "preadv_mutable",
     "pwritev", "pwritev_mutable", "lseek", "fstat", "fsync", "fdatasync",
     "sync_file_range", "fchmod", "fchown", "ftruncate", "fallocate"}

FileXattrOps == {"fgetxattr", "flistxattr", "fsetxattr", "fremovexattr"}

DirOps == {"closedir", "get", "next", "rewinddir", "seekdir", "telldir"}

FSOps ==
    {"mkdir", "rmdir", "symlink", "readlink", "link", "rename", "unlink",
     "chmod", "chown", "lchown", "stat", "lstat", "access", "truncate",
     "syncfs", "statfs", "statvfs"}

FSOpenOps == {"open2", "open3", "creat"}

FSXattrOps ==
    {"getxattr", "lgetxattr", "listxattr", "llistxattr", "setxattr",
     "lsetxattr", "removexattr", "lremovexattr"}

XattrOps == FileXattrOps \cup FSXattrOps

\* The member of the underlying interface a method hands to PERFORM.
Forward(op) == IF op = "rename" THEN "link" ELSE op

\* The operations an adaptor offers: those of its class, plus the xattr
\* interface when it was built as FileXattrAdaptor / FSXAttrAdaptor
\* (xuif # 0).
OpsOf(a) ==
    CASE a.kind = "file" -> FileOps \cup (IF a.xuif # 0 THEN FileXattrOps ELSE {})
      [] a.kind = "dir"  -> DirOps
      [] a.kind = "fs"   -> FSOps \cup (IF a.xuif # 0 THEN FSXattrOps ELSE {})

\* The object an operation is performed on: the xattr methods use the
\* xattr adaptor's own _uif, the others the base class's _uif.
TargetOf(a, op) == IF op \in XattrOps THEN a.xuif ELSE a.uif

\* _p.perform(_uif, &UIF::func, args...): one invocation of func on _uif.
Perform(target, func, arg) == <<[obj |-> target, op |-> func, arg |-> arg]>>

NoCall == [op |-> "none", arg |-> 0, ret |-> 0, uret |-> 0, ucalls |-> <<>>]

\* dynamic_cast<XATTR*>(obj): the object itself when it implements the
\* xattr interface, else null (0).
XattrCast(u, implements) == IF implements THEN u ELSE 0

\* _new_file_adaptor / _new_fs_adaptor: probe the object for the xattr
\* interface and build the xattr adaptor when the probe succeeds.
NewProbedAdaptor(kind, perf, u, xcast) ==
    [kind |-> kind, perf |-> perf, uif |-> u, xuif |-> xcast, alive |-> TRUE]

\* FSAdaptor::new_adaptor<A>(obj, ...): a plain FileAdaptor / DIRAdaptor,
\* built without a probe.
NewPlainAdaptor(kind, perf, u) ==
    [kind |-> kind, perf |-> perf, uif |-> u, xuif |-> 0, alive |-> TRUE]

\* Objects destroyed by running an adaptor's destructor chain.  Only
\* Adaptor<UIF>::~Adaptor deletes; the xattr adaptors' own _uif is not
\* deleted by their (implicit) destructors.
DtorDeletesDouble(a) == IF a.xuif # 0 THEN <<a.uif, a.xuif>> ELSE <<a.uif>>
DtorDeletes(a) == <<a.uif>>

\* Objects destroyed by an ordinary operation (close and closedir are
\* forwarded and nothing else).
OpDeletes(a, op) == <<>>

RECURSIVE DeleteAll(_, _)
DeleteAll(us, ds) ==
    IF ds = <<>> THEN us
    ELSE DeleteAll([us EXCEPT ![Head(ds)].deleted = @ + 1], Tail(ds))

AdaptorInit ==
    /\ uifs = <<>>
    /\ adaptors = <<>>
    /\ lastCall = NoCall

\* new_sync_*_adaptor / new_async_*_adaptor / export_as_sync_* applied to a
\* fresh non-null underlying object of the given kind.  Adaptors built by
\* separate factory calls share no state, so one behaviour follows one
\* factory-built adaptor and the handles it hands out.
NewAdaptor(kind, perf, hasX) ==
    /\ uifs = <<>>
    /\ kind = "dir" => ~hasX          \* no xattr interface exists for DIR
    /\ LET u == Len(uifs) + 1 IN
       /\ uifs' = Append(uifs, [kind |-> kind, xattr |-> hasX, deleted |-> 0])
       /\ adaptors' = Append(adaptors,
             IF kind = "dir"
             THEN NewPlainAdaptor(kind, perf, u)
             ELSE NewProbedAdaptor(kind, perf, u, XattrCast(u, hasX)))
    /\ lastCall' = NoCall
    /\ UNCHANGED otherThanAdaptor

\* Any forwarding method of FileAdaptor, FileXattrAdaptor, DIRAdaptor,
\* FSAdaptor, FSXAttrAdaptor: PERFORM(func, args...).
AdaptorOp(i, op, arg, uret) ==
    /\ i \in 1..Len(adaptors)
    /\ adaptors[i].alive
    /\ op \in OpsOf(adaptors[i])
    /\ lastCall' = [op |-> op, arg |-> arg, ret |-> uret, uret |-> uret,
                    ucalls |-> Perform(TargetOf(adaptors[i], op), Forward(op), arg)]
    /\ uifs' = DeleteAll(uifs, OpDeletes(adaptors[i], op))
    /\ UNCHANGED adaptors
    /\ UNCHANGED otherThanAdaptor

\* FSAdaptor::open / creat and FSXAttrAdaptor::open / creat.  The
\* underlying call returns null (got = FALSE) or a new file, which may or
\* may not implement the xattr interface.
AdaptorOpen(i, op, arg, got, hasX) ==
    /\ i \in 1..Len(adaptors)
    /\ adaptors[i].alive
    /\ adaptors[i].kind = "fs"
    /\ op \in FSOpenOps
    /\ got => Len(uifs) < MaxObj
    /\ LET a == adaptors[i]
           u == Len(uifs) + 1
       IN
       /\ lastCall' = [op |-> op, arg |-> arg,
                       ret |-> IF got THEN u ELSE 0,
                       uret |-> IF got THEN u ELSE 0,
                       ucalls |-> Perform(a.uif, Forward(op), arg)]
       /\ IF got
          THEN /\ uifs' = Append(uifs, [kind |-> "file", xattr |-> hasX, deleted |-> 0])
               /\ adaptors' = Append(adaptors,
                     IF a.xuif # 0
                     THEN NewProbedAdaptor("file", a.perf, u, XattrCast(u, hasX))
                     ELSE NewPlainAdaptor("file", a.perf, u))
          ELSE UNCHANGED <<uifs, adaptors>>
    /\ UNCHANGED otherThanAdaptor

\* FSAdaptor::opendir.
AdaptorOpendir(i, arg, got) ==
    /\ i \in 1..Len(adaptors)
    /\ adaptors[i].alive
    /\ adaptors[i].kind = "fs"
    /\ got => Len(uifs) < MaxObj
    /\ LET a == adaptors[i]
           u == Len(uifs) + 1
       IN
       /\ lastCall' = [op |-> "opendir", arg |-> arg,
                       ret |-> IF got THEN u ELSE 0,
                       uret |-> IF got THEN u ELSE 0,
                       ucalls |-> Perform(a.uif, Forward("opendir"), arg)]
       /\ IF got
          THEN /\ uifs' = Append(uifs, [kind |-> "dir", xattr |-> FALSE, deleted |-> 0])
               /\ adaptors' = Append(adaptors, NewPlainAdaptor("dir", a.perf, u))
          ELSE UNCHANGED <<uifs, adaptors>>
    /\ UNCHANGED otherThanAdaptor

\* delete adaptor: runs ~Adaptor<UIF>() { delete _uif; }.
DeleteAdaptor(i) ==
    /\ i \in 1..Len(adaptors)
    /\ adaptors[i].alive
    /\ adaptors' = [adaptors EXCEPT ![i].alive = FALSE]
    /\ uifs' = DeleteAll(uifs, DtorDeletes(adaptors[i]))
    /\ lastCall' = NoCall
    /\ UNCHANGED otherThanAdaptor

AdaptorNext ==
    \/ \E k \in Kinds, p \in Performers, x \in BOOLEAN : NewAdaptor(k, p, x)
    \/ \E i \in 1..MaxObj, op \in FileOps \cup FileXattrOps \cup DirOps \cup FSOps \cup FSXattrOps,
          arg \in Args, r \in Rets : AdaptorOp(i, op, arg, r)
    \/ \E i \in 1..MaxObj, op \in FSOpenOps, arg \in Args, got \in BOOLEAN, x \in BOOLEAN :
          AdaptorOpen(i, op, arg, got, x)
    \/ \E i \in 1..MaxObj, arg \in Args, got \in BOOLEAN : AdaptorOpendir(i, arg, got)
    \/ \E i \in 1..MaxObj : DeleteAdaptor(i)

\* ========================================================================
\* Performers (asyncfs.cpp lines 42-169)
\* ========================================================================
\* One runtime thread ("vcpu") hosts the cooperative tasks A and B.  A calls
\* adaptor operations through ThPerformer or AsyncPerformer; B is any other
\* cooperative task.  X is a plain OS thread calling through ExportPerformer.

MaxCalls == 2        \* operations each caller starts in one behaviour
MaxForeign == 1      \* thread_interrupt calls made on A by another task
MaxSpurious == 1     \* wake-ups without notification during one wait()
MaxClock == 3        \* the clock stops advancing here
AsyncTimeout == 2    \* timeout given to new_async_*_adaptor, in clock units

Vcpu == <<"vcpu", 0>>
XThread == <<"x", 0>>
WorkerThread(n) == <<"w", n>>
Threads == {Vcpu, XThread} \cup {WorkerThread(n) : n \in 1..MaxCalls}

Uninit == [set |-> FALSE, ret |-> 0, err |-> "none"]
\* What an underlying operation can return: a byte count, or -1 with errno.
UResults == {[set |-> TRUE, ret |-> 16, err |-> "none"], [set |-> TRUE, ret |-> -1, err |-> "EIO"]}
\* Values an uninitialised `R ret` may hold when read.
RetVals == {-1, 0, 16}

NoRecord == [perf |-> "none"]
NoCallA == [n |-> 0, perf |-> "none", slot |-> Uninit, start |-> 0, deadline |-> 0,
            ucomp |-> Uninit, wokenAt |-> 0]
NoWorker == [st |-> "none", res |-> Uninit]
NoWaiter == [mtx |-> "free", got_it |-> FALSE, ret |-> 0, pending |-> FALSE,
             ures |-> Uninit, cb |-> "none", spurious |-> 0]

\* The adaptor A uses for its async operations: new_async_file_adaptor(afile, timeout).
AsyncAdaptorPerformer == [kind |-> "async", timeout |-> AsyncTimeout]

\* std::thread([&](){ f(); }).detach(): the thread that runs f.
DoCallThreadInline(n) == Vcpu
DoCallThread(n) == WorkerThread(n)

\* AsyncPerformer::perform hands the performer's _timeout to the call.
PerformTimeoutNone(p) == 0
PerformTimeout(p) == p.timeout

PerfInit ==
    /\ cpu = "none"
    /\ clock = 0
    /\ pcA = "ready"
    /\ callA = NoCallA
    /\ ncalls = 0
    /\ resA = NoRecord
    /\ pcB = "ready"
    /\ nforeign = 0
    /\ wk = [n \in 1..MaxCalls |-> NoWorker]
    /\ intq = {}
    /\ errno = [t \in Threads |-> "none"]
    /\ blocking = {}
    /\ pcX = "idle"
    /\ waiter = NoWaiter
    /\ nxcalls = 0
    /\ resX = NoRecord

\* ---- the cooperative scheduler ----
\* The runtime resumes a ready task.  Nothing is resumed while the runtime's
\* own thread sits in a blocking call.
Schedule(t) ==
    /\ cpu = "none"
    /\ Vcpu \notin blocking
    /\ \/ t = "A" /\ pcA \in {"ready", "th_woken", "as_woken"}
       \/ t = "B" /\ pcB = "ready"
    /\ cpu' = t
    /\ IF t = "B" THEN pcB' = "run" /\ pcA' = pcA
                  ELSE pcA' = (IF pcA = "ready" THEN "idle" ELSE pcA) /\ pcB' = pcB
    /\ UNCHANGED <<clock, callA, ncalls, resA, nforeign, wk, intq, errno, blocking,
                   pcX, waiter, nxcalls, resX>>
    /\ UNCHANGED otherThanPerf

Tick ==
    /\ clock < MaxClock
    \* a timed sleep that is due ends before time moves on
    /\ ~(pcA = "as_parked" /\ clock >= callA.deadline)
    /\ clock' = clock + 1
    /\ UNCHANGED <<cpu, pcA, callA, ncalls, resA, pcB, nforeign, wk, intq, errno,
                   blocking, pcX, waiter, nxcalls, resX>>
    /\ UNCHANGED otherThanPerf

\* ---- ThPerformer: th_performer<R>::call / do_call ----
\* call(): R ret; th = CURRENT; do_call(lambda0) spawns the OS thread.
ThCallStart ==
    /\ cpu = "A" /\ pcA = "idle" /\ ncalls < MaxCalls
    /\ ncalls' = ncalls + 1
    /\ callA' = [NoCallA EXCEPT !.n = ncalls + 1, !.perf = "th", !.start = clock]
    /\ wk' = [wk EXCEPT ![ncalls + 1].st = "spawned"]
    /\ pcA' = "th_spawned"
    /\ UNCHANGED <<cpu, clock, resA, pcB, nforeign, intq, errno, blocking,
                   pcX, waiter, nxcalls, resX>>
    /\ UNCHANGED otherThanPerf

\* do_call(): photon::thread_usleep(-1) parks A and frees the runtime.
ThPark ==
    /\ cpu = "A" /\ pcA = "th_spawned"
    /\ pcA' = "th_parked"
    /\ cpu' = "none"
    /\ UNCHANGED <<clock, callA, ncalls, resA, pcB, nforeign, wk, intq, errno,
                   blocking, pcX, waiter, nxcalls, resX>>
    /\ UNCHANGED otherThanPerf

\* lambda0, first half: the spawned thread enters (obj->*func)(args...).
WorkerCallEnter(n) ==
    /\ wk[n].st = "spawned"
    /\ wk' = [wk EXCEPT ![n].st = "calling"]
    /\ blocking' = blocking \cup {DoCallThread(n)}
    /\ UNCHANGED <<cpu, clock, pcA, callA, ncalls, resA, pcB, nforeign, intq, errno,
                   pcX, waiter, nxcalls, resX>>
    /\ UNCHANGED otherThanPerf

\* lambda0: the underlying call returns r and `ret = ...` stores it through
\* the captured reference.  When the frame of call() that owns `ret` is gone
\* (A already returned from operation n) the reference dangles: the store
\* either lands in the `ret` of the call() frame A is in now, or is not
\* seen at all.
WorkerCallReturn(n, r, clobber) ==
    /\ wk[n].st = "calling"
    /\ wk' = [wk EXCEPT ![n] = [st |-> "stored", res |-> r]]
    /\ blocking' = blocking \ {DoCallThread(n)}
    /\ errno' = IF r.ret < 0 THEN [errno EXCEPT ![DoCallThread(n)] = r.err] ELSE errno
    /\ IF callA.n = n /\ pcA \in {"th_spawned", "th_parked", "th_woken"}
       THEN /\ callA' = [callA EXCEPT !.slot = r]
            /\ clobber = FALSE
       ELSE IF clobber /\ callA.perf = "th"
                   /\ pcA \in {"th_spawned", "th_parked", "th_woken"}
            THEN callA' = [callA EXCEPT !.slot = r]
            ELSE UNCHANGED callA
    /\ UNCHANGED <<cpu, clock, pcA, ncalls, resA, pcB, nforeign, intq,
                   pcX, waiter, nxcalls, resX>>
    /\ UNCHANGED otherThanPerf

\* lambda0, last statement: safe_thread_interrupt(th, EINTR, 0).
WorkerInterrupt(n) ==
    /\ wk[n].st = "stored"
    /\ wk' = [wk EXCEPT ![n].st = "finished"]
    /\ intq' = intq \cup {n}
    /\ UNCHANGED <<cpu, clock, pcA, callA, ncalls, resA, pcB, nforeign, errno,
                   blocking, pcX, waiter, nxcalls, resX>>
    /\ UNCHANGED otherThanPerf

\* The runtime delivers a queued interrupt: a task asleep in thread_usleep
\* wakes with errno = EINTR; a task that is not asleep is left alone.
DeliverInterrupt(n) ==
    /\ n \in intq
    /\ cpu = "none"
    /\ Vcpu \notin blocking
    /\ intq' = intq \ {n}
    /\ IF pcA = "th_parked"
       THEN /\ pcA' = "th_woken"
            /\ errno' = [errno EXCEPT ![Vcpu] = "EINTR"]
       ELSE UNCHANGED <<pcA, errno>>
    /\ UNCHANGED <<cpu, clock, callA, ncalls, resA, pcB, nforeign, wk, blocking,
                   pcX, waiter, nxcalls, resX>>
    /\ UNCHANGED otherThanPerf

\* Another cooperative task calls photon::thread_interrupt on A while A
\* sleeps in do_call: thread_usleep(-1) ends like for any interrupt.
ForeignInterrupt ==
    /\ cpu = "B" /\ pcB = "run"
    /\ nforeign < MaxForeign
    /\ pcA = "th_parked"
    /\ nforeign' = nforeign + 1
    /\ pcA' = "th_woken"
    /\ errno' = [errno EXCEPT ![Vcpu] = "EINTR"]
    /\ UNCHANGED <<cpu, clock, callA, ncalls, resA, pcB, wk, intq, blocking,
                   pcX, waiter, nxcalls, resX>>
    /\ UNCHANGED otherThanPerf

\* call(): `return ret;` after do_call returns.  An unwritten ret holds any
\* value.
ThReturn(v) ==
    /\ cpu = "A" /\ pcA = "th_woken"
    /\ IF callA.slot.set THEN v = callA.slot.ret ELSE TRUE
    /\ resA' = [perf |-> "th", n |-> callA.n, ret |-> v, err |-> errno[Vcpu],
                wst |-> wk[callA.n].st, ures |-> wk[callA.n].res,
                timedout |-> FALSE, start |-> callA.start, wokenAt |-> clock]
    /\ callA' = NoCallA
    /\ pcA' = "idle"
    /\ UNCHANGED <<cpu, clock, ncalls, pcB, nforeign, wk, intq, errno, blocking,
                   pcX, waiter, nxcalls, resX>>
    /\ UNCHANGED otherThanPerf

\* A ends (its task function returns) and frees the runtime.
AFinish ==
    /\ cpu = "A" /\ pcA = "idle"
    /\ pcA' = "done"
    /\ cpu' = "none"
    /\ UNCHANGED <<clock, callA, ncalls, resA, pcB, nforeign, wk, intq, errno,
                   blocking, pcX, waiter, nxcalls, resX>>
    /\ UNCHANGED otherThanPerf

\* B computes its value and ends.
BCompute ==
    /\ cpu = "B" /\ pcB = "run"
    /\ pcB' = "done"
    /\ cpu' = "none"
    /\ UNCHANGED <<clock, pcA, callA, ncalls, resA, nforeign, wk, intq, errno,
                   blocking, pcX, waiter, nxcalls, resX>>
    /\ UNCHANGED otherThanPerf

\* ---- AsyncPerformer::perform -> AsyncFuncWrapper(_if, func, _timeout).call ----
\* The wrapper (asyncfs.h) starts the asynchronous operation with a
\* completion that records result and errno in a slot on A's stack and
\* unparks A; A parks until unparked or until the timeout has elapsed.
AsCallStart ==
    /\ cpu = "A" /\ pcA = "idle" /\ ncalls < MaxCalls
    /\ ncalls' = ncalls + 1
    /\ callA' = [NoCallA EXCEPT !.n = ncalls + 1, !.perf = "async", !.start = clock,
                                !.deadline = clock + PerformTimeout(AsyncAdaptorPerformer)]
    /\ pcA' = "as_parked"
    /\ cpu' = "none"
    /\ UNCHANGED <<clock, resA, pcB, nforeign, wk, intq, errno, blocking,
                   pcX, waiter, nxcalls, resX>>
    /\ UNCHANGED otherThanPerf

\* The underlying object calls the completion (from any thread).
AsComplete(r) ==
    /\ pcA = "as_parked"
    /\ callA' = [callA EXCEPT !.slot = r, !.ucomp = r, !.wokenAt = clock]
    /\ pcA' = "as_woken"
    /\ UNCHANGED <<cpu, clock, ncalls, resA, pcB, nforeign, wk, intq, errno, blocking,
                   pcX, waiter, nxcalls, resX>>
    /\ UNCHANGED otherThanPerf

\* No completion came and the timeout has elapsed.
AsTimeout ==
    /\ pcA = "as_parked"
    /\ clock >= callA.deadline
    /\ callA' = [callA EXCEPT !.slot = [set |-> TRUE, ret |-> -1, err |-> "ETIMEDOUT"],
                               !.wokenAt = clock]
    /\ pcA' = "as_woken"
    /\ UNCHANGED <<cpu, clock, ncalls, resA, pcB, nforeign, wk, intq, errno, blocking,
                   pcX, waiter, nxcalls, resX>>
    /\ UNCHANGED otherThanPerf

\* A runs again and the operation returns what the slot holds.
AsReturn ==
    /\ cpu = "A" /\ pcA = "as_woken"
    /\ errno' = IF callA.slot.ret < 0 THEN [errno EXCEPT ![Vcpu] = callA.slot.err]
                                       ELSE errno
    /\ resA' = [perf |-> "async", n |-> callA.n, ret |-> callA.slot.ret,
                err |-> IF callA.slot.ret < 0 THEN callA.slot.err ELSE errno[Vcpu],
                wst |-> "none", ures |-> callA.ucomp,
                timedout |-> ~callA.ucomp.set,
                start |-> callA.start, wokenAt |-> callA.wokenAt]
    /\ callA' = NoCallA
    /\ pcA' = "idle"
    /\ UNCHANGED <<cpu, clock, ncalls, pcB, nforeign, wk, intq, blocking,
                   pcX, waiter, nxcalls, resX>>
    /\ UNCHANGED otherThanPerf

\* ---- ExportPerformer::perform and AsyncWaiter ----
\* perform(): AsyncWaiter<R> w (its constructor locks _mtx through _lock),
\* then (_if->*func)(args..., w.done(), _timeout) starts the operation.
XIssue ==
    /\ pcX = "idle" /\ nxcalls < MaxCalls
    /\ nxcalls' = nxcalls + 1
    /\ waiter' = [NoWaiter EXCEPT !.mtx = "X", !.pending = TRUE]
    /\ pcX' = "issued"
    /\ UNCHANGED <<cpu, clock, pcA, callA, ncalls, resA, pcB, nforeign, wk, intq,
                   errno, blocking, resX>>
    /\ UNCHANGED otherThanPerf

\* The test of _got_it in wait(), made with _mtx held.
GotItAlways(w) == TRUE
GotIt(w) == w.got_it

\* std::lock_guard<std::mutex> lock(_mtx) in on_done() goes on when _mtx is free.
NoLock(w) == TRUE
CanLock(w) == w.mtx = "free"

\* wait(): while(!_got_it), and the predicate of _cond.wait(_lock, pred).
XWait ==
    /\ pcX = "issued"
    /\ pcX' = IF GotIt(waiter) THEN "got" ELSE "checked"
    /\ UNCHANGED <<cpu, clock, pcA, callA, ncalls, resA, pcB, nforeign, wk, intq,
                   errno, blocking, waiter, nxcalls, resX>>
    /\ UNCHANGED otherThanPerf

\* _cond.wait: X releases _mtx and blocks on _cond, in one atomic step.
XBlock ==
    /\ pcX = "checked"
    /\ waiter' = [waiter EXCEPT !.mtx = IF @ = "X" THEN "free" ELSE @]
    /\ pcX' = "waiting"
    /\ UNCHANGED <<cpu, clock, pcA, callA, ncalls, resA, pcB, nforeign, wk, intq,
                   errno, blocking, nxcalls, resX>>
    /\ UNCHANGED otherThanPerf

\* A condition variable may wake its waiter without a notification.
XSpurious ==
    /\ pcX = "waiting"
    /\ waiter.spurious < MaxSpurious
    /\ waiter' = [waiter EXCEPT !.spurious = @ + 1]
    /\ pcX' = "woken"
    /\ UNCHANGED <<cpu, clock, pcA, callA, ncalls, resA, pcB, nforeign, wk, intq,
                   errno, blocking, nxcalls, resX>>
    /\ UNCHANGED otherThanPerf

\* _cond.wait after a wake-up: X locks _mtx again and tests the predicate;
\* it returns from the wait, or blocks again.
XReacquire ==
    /\ pcX = "woken"
    /\ waiter.mtx = "free"
    /\ waiter' = [waiter EXCEPT !.mtx = "X"]
    /\ pcX' = IF GotIt(waiter) THEN "got" ELSE "checked"
    /\ UNCHANGED <<cpu, clock, pcA, callA, ncalls, resA, pcB, nforeign, wk, intq,
                   errno, blocking, nxcalls, resX>>
    /\ UNCHANGED otherThanPerf

\* The underlying object calls done with result r, on the cooperative
\* runtime's thread: on_done(r) starts and asks for _mtx.
XOnDoneCall(r) ==
    /\ waiter.pending
    /\ cpu = "none"
    /\ waiter' = [waiter EXCEPT !.pending = FALSE, !.ures = r, !.cb = "called"]
    /\ UNCHANGED <<cpu, clock, pcA, callA, ncalls, resA, pcB, nforeign, wk, intq,
                   errno, blocking, pcX, nxcalls, resX>>
    /\ UNCHANGED otherThanPerf

\* on_done: the lock_guard has _mtx.
XOnDoneLock ==
    /\ waiter.cb = "called"
    /\ CanLock(waiter)
    /\ waiter' = [waiter EXCEPT !.mtx = "cb", !.cb = "locked"]
    /\ UNCHANGED <<cpu, clock, pcA, callA, ncalls, resA, pcB, nforeign, wk, intq,
                   errno, blocking, pcX, nxcalls, resX>>
    /\ UNCHANGED otherThanPerf

\* on_done: ret = r->result; _got_it = true; _cond.notify_all() wakes X if
\* it is blocked on _cond.  r->error_number is not read.
XOnDone ==
    /\ waiter.cb = "locked"
    /\ waiter' = [waiter EXCEPT !.ret = waiter.ures.ret, !.got_it = TRUE, !.cb = "set"]
    /\ pcX' = IF pcX = "waiting" THEN "woken" ELSE pcX
    /\ UNCHANGED <<cpu, clock, pcA, callA, ncalls, resA, pcB, nforeign, wk, intq,
                   errno, blocking, nxcalls, resX>>
    /\ UNCHANGED otherThanPerf

\* on_done returns 0: the lock_guard releases _mtx.
XOnDoneReturn ==
    /\ waiter.cb = "set"
    /\ waiter' = [waiter EXCEPT !.mtx = IF @ = "cb" THEN "free" ELSE @, !.cb = "none"]
    /\ UNCHANGED <<cpu, clock, pcA, callA, ncalls, resA, pcB, nforeign, wk, intq,
                   errno, blocking, pcX, nxcalls, resX>>
    /\ UNCHANGED otherThanPerf

\* wait() returns (R)ret with _mtx held; perform returns and w is destroyed.
XReturn ==
    /\ pcX = "got"
    /\ resX' = [perf |-> "export", n |-> nxcalls, ret |-> waiter.ret,
                err |-> errno[XThread], wst |-> "none", ures |-> waiter.ures,
                timedout |-> FALSE, start |-> 0, wokenAt |-> 0]
    /\ waiter' = NoWaiter
    /\ pcX' = "idle"
    /\ UNCHANGED <<cpu, clock, pcA, callA, ncalls, resA, pcB, nforeign, wk, intq,
                   errno, blocking, nxcalls>>
    /\ UNCHANGED otherThanPerf

ThNext ==
    \/ \E t \in {"A", "B"} : Schedule(t)
    \/ ThCallStart
    \/ ThPark
    \/ \E n \in 1..MaxCalls : WorkerCallEnter(n)
    \/ \E n \in 1..MaxCalls, r \in UResults, c \in BOOLEAN : WorkerCallReturn(n, r, c)
    \/ \E n \in 1..MaxCalls : WorkerInterrupt(n)
    \/ \E n \in 1..MaxCalls : DeliverInterrupt(n)
    \/ ForeignInterrupt
    \/ \E v \in RetVals : ThReturn(v)
    \/ AFinish
    \/ BCompute

AsyncNext ==
    \/ \E t \in {"A", "B"} : Schedule(t)
    \/ Tick
    \/ AsCallStart
    \/ \E r \in UResults : AsComplete(r)
    \/ AsTimeout
    \/ AsReturn
    \/ AFinish
    \/ BCompute

ExportNext ==
    \/ \E t \in {"A", "B"} : Schedule(t)
    \/ AFinish
    \/ BCompute
    \/ XIssue
    \/ XWait
    \/ XBlock
    \/ XSpurious
    \/ XReacquire
    \/ \E r \in UResults : XOnDoneCall(r)
    \/ XOnDoneLock
    \/ XOnDone
    \/ XOnDoneReturn
    \/ XReturn

\* ========================================================================
\* StatisticsQueue (throttled-file.cpp lines 31-142)
\* ========================================================================
TimeWindow == 1              \* m_time_window
MsPerSec == 1024             \* the 1024UL that turns seconds into "ms"
BaseAlign == 536870912       \* 1UL << 29
BaseSpan == 1073741823       \* (1UL << 30) - 1

NowInit == 4096              \* photon::now / 1024 when the queue is built
TickMs == 512                \* the clock advances in steps of this many ms
MaxTicks == 4                \* ... this many times
MaxAdmits == 3               \* push_back calls started in one behaviour
MaxRate == 3                 \* rates 1..MaxRate ...
BigRate == 2048              \* ... and one rate above the FIFO's capacity
BurstLen == 1024             \* push_back calls of one burst
HorizonTicks == 16           \* the clock stops for good after this many ticks
FarTime == 2000000000        \* a time the clock never reaches
LateTicks == 2               \* ticks of the clock after the long idle span
MaxWindow == 2               \* time_window 1..MaxWindow seconds
MaxAmount == 2               \* amounts 1..MaxAmount
AmountBits == 32             \* Sample::amount is a uint32_t
UnitBits == 30               \* a wide queue counts bytes in units of 2^UnitBits

QTasks == {"t1", "t2"}

\* StatisticsQueue(rate, capacity) at time t (in ms).
NewQueue(rate, capacity, t) ==
    [events |-> <<>>, cap |-> capacity, rate |-> rate, sum |-> 0,
     limit |-> rate * TimeWindow,
     base |-> t - (t % BaseAlign), awrap |-> 0]

\* Throttle::Throttle: iops(limits.IOPS, window * 1024U) and
\* throughput(limits.throughput, window * 1024U).
ThrottleQueue(rate, window, t) == NewQueue(rate, window * MsPerSec, t)

\* A wide queue: its rate and every amount it is given are multiples of
\* 2^UnitBits bytes and are counted in that unit, in which the 32-bit
\* amount of a sample holds the values 0 .. awrap - 1.  (awrap = 0: a queue
\* counted in bytes, whose amounts stay far below 2^32.)
AmountWrap == 2 ^ (AmountBits - UnitBits)
WideQueue(rate, window, t) == [ThrottleQueue(rate, window, t) EXCEPT !.awrap = AmountWrap]
Amount32(q, a) == IF q.awrap = 0 THEN a ELSE a % q.awrap

\* Sample::time_stamp is a uint32_t.  A stamp is held as the integer of
\* least absolute value that is congruent to it modulo 2^32, so a negative
\* stamp s stands for the 32-bit value s + 2^32.  _get_time adds the 64-bit
\* base to the 32-bit value: for such a stamp the result is at least 2^32,
\* above every time the clock reaches here; FarTime stands for it.
GetTime(q, stamp) == IF stamp >= 0 THEN q.base + stamp ELSE FarTime
GetStamp(q, timems) == timems - q.base

\* _update_timestamp_base(now)
UpdateTimestampBase(q, t) ==
    IF t > q.base + BaseSpan
    THEN LET new_base == t - (t % BaseAlign) IN
         [q EXCEPT !.events = [i \in 1..Len(q.events) |->
                                 [q.events[i] EXCEPT !.time_stamp = @ + q.base - new_base]],
                   !.base = new_base]
    ELSE q

\* The amounts of samples lo..hi of a FIFO, added up.  (Here and below a
\* one-element set binds a name to a value that is computed once.)
RECURSIVE SumAmounts(_, _, _)
SumAmounts(ev, lo, hi) ==
    IF lo > hi THEN 0
    ELSE IF lo = hi THEN ev[lo].amount
    ELSE CHOOSE r \in {SumAmounts(ev, lo, mid) + SumAmounts(ev, mid + 1, hi) :
                        mid \in {(lo + hi) \div 2}} : TRUE

\* The while loop of try_pop(): w0 and head_working_time are fixed before
\* it, so it pops the samples up to the first one that fails its test.
PopTestNever(q, i, w0, head_working_time, t) == FALSE

\* The test of try_pop()'s while loop, on sample i.
PopTest(q, i, w0, head_working_time, t) ==
    /\ GetTime(q, q.events[i].time_stamp) < w0
    /\ GetTime(q, q.events[i].time_stamp) + head_working_time <= t

\* How many samples the loop pops: those before the first that fails.
NumPopped(q, w0, head_working_time, t) ==
    LET stays == {i \in 1..Len(q.events) : ~PopTest(q, i, w0, head_working_time, t)} IN
    IF stays = {} THEN Len(q.events)
    ELSE (CHOOSE i \in stays : \A k \in stays : i <= k) - 1

\* m_sum -= front().amount; pop_front(), n times.
PopFront(q, n) ==
    [q EXCEPT !.sum = @ - SumAmounts(q.events, 1, n),
              !.events = SubSeq(@, n + 1, Len(@))]

PopLoop(q, w0, head_working_time, t) ==
    IF q.events = <<>> \/ ~PopTest(q, 1, w0, head_working_time, t)
    THEN q
    ELSE CHOOSE r \in {PopFront(q, n) : n \in {NumPopped(q, w0, head_working_time, t)}} : TRUE

\* try_pop() at time t.  With an empty ring, front() is a stale slot and
\* the loop does not run, so head_working_time is not used.
TryPop(q, t) ==
    CHOOSE r \in
      {IF q1.rate # 0
       THEN LET w0 == t - TimeWindow * MsPerSec
                hwt == IF q1.events = <<>> THEN 0
                       ELSE (Head(q1.events).amount \div q1.rate) * MsPerSec
            IN PopLoop(q1, w0, hwt, t)
       ELSE q1 :
       q1 \in {UpdateTimestampBase(q, t)}} : TRUE

\* push_back(), line 77: the test that chooses a new sample over a merge.
NeedsAppend(q, t) == q.events = <<>> \/ GetTime(q, Head(q.events).time_stamp) # t

\* m_events.full(): the bounded FIFO holds as many samples as its capacity.
Full(q) == Len(q.events) >= q.cap

\* push_back(), lines 77-86: a new sample, or a merge into front().
Insert(q, amount, t) ==
    LET a32 == Amount32(q, amount)
        q1 == IF NeedsAppend(q, t)
              THEN [q EXCEPT !.events = Append(@, [time_stamp |-> GetStamp(q, t),
                                                   amount |-> a32])]
              ELSE [q EXCEPT !.events[1].amount = Amount32(q, @ + a32)]
    IN [q1 EXCEPT !.sum = @ + a32]

\* push_back(), line 68, if (rate()): a queue of rate 0 accounts nothing.
NeverUnlimited(q) == FALSE
Unlimited(q) == q.rate = 0

\* push_back() from its while test to its next suspension or its end, at
\* time t: "park" (wait_for_pop until wake), "yield" (thread_yield in the
\* first loop), "full" (thread_yield in the while (m_events.full()) loop,
\* the local now kept in lnow), or "done" (the amount is admitted).
PushCheck(q, amount, t) ==
    IF Unlimited(q)
    THEN [q |-> q, out |-> "done", wake |-> 0, lnow |-> 0]
    ELSE IF q.sum >= q.limit /\ q.events = <<>>
    THEN \* front() of an empty ring is a slot written earlier: its time is past
         [q |-> q, out |-> "yield", wake |-> 0, lnow |-> 0]
    ELSE IF q.sum >= q.limit
    THEN LET next_check == GetTime(q, Head(q.events).time_stamp) + TimeWindow * MsPerSec IN
         IF next_check > t
         THEN [q |-> q, out |-> "park", wake |-> next_check, lnow |-> 0]
         ELSE [q |-> q, out |-> "yield", wake |-> 0, lnow |-> 0]
    ELSE CHOOSE r \in
           {IF NeedsAppend(q1, t) /\ Full(q1)
            THEN [q |-> q1, out |-> "full", wake |-> 0, lnow |-> t]
            ELSE [q |-> Insert(q1, amount, t), out |-> "done", wake |-> 0, lnow |-> 0] :
            q1 \in {TryPop(q, t)}} : TRUE

\* push_back() resumed inside while (m_events.full()) at time t: try_pop(),
\* whose result is dropped, then the test again; the sample pushed after
\* the loop carries the now read before it.
FullCheck(q, amount, lnow, t) ==
    CHOOSE r \in
      {IF Full(q1)
       THEN [q |-> q1, out |-> "full", wake |-> 0, lnow |-> lnow]
       ELSE [q |-> [q1 EXCEPT !.events = Append(@, [time_stamp |-> GetStamp(q1, lnow),
                                                    amount |-> amount]),
                              !.sum = @ + amount],
             out |-> "done", wake |-> 0, lnow |-> 0] :
       q1 \in {TryPop(q, t)}} : TRUE

\* A task that calls push_back(amount) n times in a row: the calls run
\* back to back up to the first one that suspends.
RECURSIVE Burst(_, _, _, _)
Burst(q, amount, n, t) ==
    IF n <= 1 THEN PushCheck(q, amount, t)
    ELSE CHOOSE r2 \in
           {IF r.out # "done" THEN r ELSE Burst(r.q, amount, n - n \div 2, t) :
            r \in {Burst(q, amount, n \div 2, t)}} : TRUE

\* min_duration(), in us
MinDuration(q) ==
    IF q.rate # 0
    THEN IF q.sum <= q.limit THEN 0
         ELSE ((q.sum - q.limit) * MsPerSec * MsPerSec) \div q.rate
    ELSE 0

IdleQTask == [pc |-> "idle", amount |-> 0, wake |-> 0, lnow |-> 0]

\* Before the queue is constructed; a constructed queue has window >= 1.
NotBuilt == [rate |-> 0, window |-> 0]

QueueInit ==
    /\ now = NowInit
    /\ sqcfg = NotBuilt
    /\ sq = ThrottleQueue(0, 0, NowInit)
    /\ sqtask = [t \in QTasks |-> IdleQTask]
    /\ sqreq = 0
    /\ sqn = 0
    /\ sqsusp = FALSE

\* What a push_back does with the outcome of PushCheck.
QAfterCheck(t, amount, r) ==
    /\ sq' = r.q
    /\ sqtask' = [sqtask EXCEPT ![t] =
                     IF r.out = "done" THEN IdleQTask
                     ELSE [pc |-> r.out, amount |-> amount, wake |-> r.wake,
                           lnow |-> r.lnow]]
    /\ sqsusp' = (sqsusp \/ r.out # "done")

\* Throttle::Throttle constructs the queue from (rate, time_window).
QNew(rate, window) ==
    /\ sqcfg = NotBuilt
    /\ sqcfg' = [rate |-> rate, window |-> window]
    /\ sq' = ThrottleQueue(rate, window, now)
    /\ UNCHANGED <<now, sqtask, sqreq, sqn, sqsusp>>
    /\ UNCHANGED otherThanQueue

\* The same for a throughput limit of rate * 2^UnitBits bytes per second.
QNewWide(rate, window) ==
    /\ sqcfg = NotBuilt
    /\ sqcfg' = [rate |-> rate, window |-> window]
    /\ sq' = WideQueue(rate, window, now)
    /\ UNCHANGED <<now, sqtask, sqreq, sqn, sqsusp>>
    /\ UNCHANGED otherThanQueue

\* A task calls push_back(amount).
QAdmit(t, amount) ==
    /\ sqcfg # NotBuilt
    /\ sqtask[t].pc = "idle"
    /\ sqn < MaxAdmits
    /\ sqn' = sqn + 1
    /\ sqreq' = sqreq + amount
    /\ \E r \in {PushCheck(sq, amount, now)} : QAfterCheck(t, amount, r)
    /\ UNCHANGED <<now, sqcfg>>
    /\ UNCHANGED otherThanQueue

\* A task calls push_back(1) BurstLen times in a row.
QBurst(t) ==
    /\ sqcfg.rate = BigRate
    /\ sqtask[t].pc = "idle"
    /\ sqn < MaxAdmits
    /\ sqn' = sqn + 1
    /\ sqreq' = sqreq + BurstLen
    /\ \E r \in {Burst(sq, 1, BurstLen, now)} : QAfterCheck(t, 1, r)
    /\ UNCHANGED <<now, sqcfg>>
    /\ UNCHANGED otherThanQueue

\* wait_for_pop((next_check - now) * 1024UL) times out.
QWake(t) ==
    /\ sqtask[t].pc = "park"
    /\ now >= sqtask[t].wake
    /\ sqtask' = [sqtask EXCEPT ![t].pc = "yield"]
    /\ UNCHANGED <<now, sq, sqcfg, sqreq, sqn, sqsusp>>
    /\ UNCHANGED otherThanQueue

\* thread_yield() returns: now = try_pop(), then the while test again.
QResume(t) ==
    /\ sqtask[t].pc = "yield"
    /\ \E r \in {PushCheck(TryPop(sq, now), sqtask[t].amount, now)} :
          QAfterCheck(t, sqtask[t].amount, r)
    /\ UNCHANGED <<now, sqcfg, sqreq, sqn>>
    /\ UNCHANGED otherThanQueue

\* thread_yield() returns inside while (m_events.full()).
QFullResume(t) ==
    /\ sqtask[t].pc = "full"
    /\ \E r \in {FullCheck(sq, sqtask[t].amount, sqtask[t].lnow, now)} :
          QAfterCheck(t, sqtask[t].amount, r)
    /\ UNCHANGED <<now, sqcfg, sqreq, sqn>>
    /\ UNCHANGED otherThanQueue

\* try_pop() called from outside push_back (scoped_queue::~scoped_queue).
QEvict ==
    /\ sqcfg # NotBuilt
    /\ sq' = TryPop(sq, now)
    /\ UNCHANGED <<now, sqcfg, sqtask, sqreq, sqn, sqsusp>>
    /\ UNCHANGED otherThanQueue

\* A suspended push_back that would suspend again if resumed now.
MustWait(t) ==
    \/ sqtask[t].pc = "park" /\ now < sqtask[t].wake
    \/ /\ sqtask[t].pc = "yield"
       /\ PushCheck(TryPop(sq, now), sqtask[t].amount, now).out # "done"
    \/ /\ sqtask[t].pc = "full"
       /\ FullCheck(sq, sqtask[t].amount, sqtask[t].lnow, now).out # "done"

\* Time passes: n times, and for as long as a suspended push_back needs
\* it to, up to HorizonTicks.
QTickUpTo(n) ==
    /\ sqcfg # NotBuilt
    /\ \/ now < NowInit + TickMs * n
       \/ (\E t \in QTasks : MustWait(t)) /\ now < NowInit + TickMs * HorizonTicks
    /\ now' = now + TickMs
    /\ UNCHANGED <<sq, sqcfg, sqtask, sqreq, sqn, sqsusp>>
    /\ UNCHANGED otherThanQueue

QTick == QTickUpTo(MaxTicks)

\* A long time passes with the queue left alone: the clock comes to one
\* tick before m_timestamp_base + 2^30.
IdleEnd == BaseSpan + 1 - TickMs
QIdle ==
    /\ sqcfg # NotBuilt
    /\ \A t \in QTasks : sqtask[t].pc = "idle"
    /\ now < IdleEnd
    /\ now' = IdleEnd
    /\ UNCHANGED <<sq, sqcfg, sqtask, sqreq, sqn, sqsusp>>
    /\ UNCHANGED otherThanQueue

\* Time passes after the long idle span.
QLateTick ==
    /\ now >= IdleEnd
    /\ now < IdleEnd + TickMs * LateTicks
    /\ now' = now + TickMs
    /\ UNCHANGED <<sq, sqcfg, sqtask, sqreq, sqn, sqsusp>>
    /\ UNCHANGED otherThanQueue

QueueNext ==
    \/ \E r \in 1..MaxRate, w \in 1..MaxWindow : QNew(r, w)
    \/ \E t \in QTasks, a \in 1..MaxAmount : QAdmit(t, a)
    \/ \E t \in QTasks : QWake(t)
    \/ \E t \in QTasks : QResume(t)
    \/ QEvict
    \/ QTick

\* A queue with a limit of gigabytes per second and IOs of gigabytes.
QueueWideNext ==
    \/ \E r \in 1..MaxRate, w \in 1..MaxWindow : QNewWide(r, w)
    \/ \E t \in QTasks, a \in 1..MaxAmount : QAdmit(t, a)
    \/ \E t \in QTasks : QWake(t)
    \/ \E t \in QTasks : QResume(t)
    \/ QEvict
    \/ QTick

\* A queue that is given small IOs and IOs of several seconds' worth.
LongAmount == 2 * MaxAmount
QueueTailNext ==
    \/ \E r \in 1..MaxRate, w \in 1..MaxWindow : QNew(r, w)
    \/ \E t \in QTasks, a \in {1, LongAmount} : QAdmit(t, a)
    \/ \E t \in QTasks : QWake(t)
    \/ \E t \in QTasks : QResume(t)
    \/ QEvict
    \/ QTick

\* The queue over a span of time that makes the timestamp base move.
QueueRebaseNext ==
    \/ \E r \in 1..MaxRate, w \in 1..MaxWindow : QNew(r, w)
    \/ \E t \in QTasks, a \in 1..MaxAmount : QAdmit(t, a)
    \/ \E t \in QTasks : QWake(t)
    \/ \E t \in QTasks : QResume(t)
    \/ QEvict
    \/ QTick
    \/ QIdle
    \/ QLateTick

\* The queue under fewer inputs but with bursts that fill the FIFO, for
\* the behaviours that go on for ever.
LiveAdmits == 2              \* push_back calls or bursts started
LiveTicks == 1               \* free ticks of the clock
LiveRates == {1, BigRate}
LiveWindows == {1, MaxWindow}
LiveAmounts == {1, MaxAmount}

QLiveTick == QTickUpTo(LiveTicks)

\* The scheduler runs a task that is ready, or else time advances.
QLiveProgress ==
    \/ QLiveTick
    \/ \E t \in QTasks : QWake(t) \/ QResume(t) \/ QFullResume(t)

QueueLiveNext ==
    \/ \E r \in LiveRates, w \in LiveWindows : QNew(r, w)
    \/ \E t \in QTasks, a \in LiveAmounts : sqn < LiveAdmits /\ QAdmit(t, a)
    \/ \E t \in QTasks : sqn < LiveAdmits /\ QBurst(t)
    \/ \E t \in QTasks : QWake(t)
    \/ \E t \in QTasks : QResume(t)
    \/ \E t \in QTasks : QFullResume(t)
    \/ QEvict
    \/ QLiveTick

\* The queue with a rate above the FIFO's capacity, filled by bursts, over
\* a span of time in which the samples of a burst expire.
QueueFullNext ==
    \/ \E w \in 1..MaxWindow : QNew(BigRate, w)
    \/ \E t \in QTasks : QAdmit(t, 1)
    \/ \E t \in QTasks : QBurst(t)
    \/ \E t \in QTasks : QWake(t)
    \/ \E t \in QTasks : QResume(t)
    \/ \E t \in QTasks : QFullResume(t)
    \/ QEvict
    \/ QTick

\* ========================================================================
\* ThrottledFile (throttled-file.cpp lines 144-176 and 235-411)
\* ========================================================================
MaxIOs == 2                  \* IOs started in one behaviour
TMaxTicks == 2               \* ticks of TickMs after NowInit
MaxCount == 2                \* byte counts 1..MaxCount
LiveIOs == 3                 \* IOs started in one behaviour with a long clock
TLiveTicks == 8              \* ticks of TickMs of the long clock

TTasks == {"t1", "t2"}
ThrottleKeys == {"RW", "R", "W"}

ReadOps == {"pread", "preadv", "preadv_mutable", "read", "readv", "readv_mutable"}
VectoredWriteOps == {"pwritev", "pwritev_mutable", "writev", "writev_mutable"}
WriteOps == {"pwrite", "write"} \cup VectoredWriteOps
IOOps == ReadOps \cup WriteOps

\* The ThrottleLimits the file may be built with.
LimitChoices ==
    {[RW |-> [concurent_ops |-> 2, IOPS |-> 2, throughput |-> 0, block_size |-> 0],
      R  |-> [concurent_ops |-> 2, IOPS |-> 0, throughput |-> 2, block_size |-> 1],
      W  |-> [concurent_ops |-> 1, IOPS |-> 0, throughput |-> 2, block_size |-> 0],
      time_window |-> 1],
     [RW |-> [concurent_ops |-> 0, IOPS |-> 0, throughput |-> 0, block_size |-> 0],
      R  |-> [concurent_ops |-> 1, IOPS |-> 1, throughput |-> 0, block_size |-> 0],
      W  |-> [concurent_ops |-> 1, IOPS |-> 1, throughput |-> 0, block_size |-> 1],
      time_window |-> 2],
     [RW |-> [concurent_ops |-> 0, IOPS |-> 0, throughput |-> 0, block_size |-> 0],
      R  |-> [concurent_ops |-> 0, IOPS |-> 0, throughput |-> 0, block_size |-> 0],
      W  |-> [concurent_ops |-> 0, IOPS |-> 0, throughput |-> 0, block_size |-> 0],
      time_window |-> 1]}

\* The second Throttle each entry point hands to scoped_throttle (the first
\* is always t_all).
T2(op) == IF op \in ReadOps \/ op \in VectoredWriteOps THEN "R" ELSE "W"

\* The block size each entry point hands to split_io.
BlockSize(op) == IF op \in ReadOps THEN tlim.R.block_size ELSE tlim.W.block_size

\* The direction of an entry point.
Dir(op) == IF op \in ReadOps THEN "R" ELSE "W"

\* photon::semaphore::wait(1) returns without suspending.  A limit of 0
\* builds the semaphore with UINT32_MAX permits, more than the tasks take.
CanWait(tk, k) == tlim[k].concurent_ops = 0 \/ tk[k] < tlim[k].concurent_ops

\* scoped_throttle's members q11, q12, q21, q22, in construction order.
QKey(j, t2) == IF j \in {1, 3} THEN "RW" ELSE t2
QKind(j) == IF j <= 2 THEN "iops" ELSE "throughput"
QAmount(j, count) == IF j <= 2 THEN 1 ELSE count

PhotonNow(t) == t * MsPerSec          \* photon::now, in us

\* One second (10^6 us) in the queues' time unit of 1024 us.
OneSecond == 1000000 \div MsPerSec

NoTs == [j \in 1..4 |-> 0]
\* A task's frame: dir is the direction of the entry point it called, t2
\* and bs the Throttle and block size that entry point passed on.
IdleTask == [pc |-> "idle", dir |-> "none", t2 |-> "none", bs |-> 0, count |-> 0,
             sems |-> <<>>, qi |-> 0, wake |-> 0, lnow |-> 0, ts |-> NoTs, left |-> 0,
             cnt |-> 0, len |-> 0, ret |-> 0, npush |-> 0, bytes |-> 0, ncall |-> 0]

\* ~scoped_semaphore(): m_sem.signal(m_count) on the semaphore the
\* constructor waited on, sem1 being member 1 and sem2 member 2.
SignalledByDir(tk, i) == IF i = 1 THEN "RW" ELSE tk.dir
Signalled(tk, i) == tk.sems[i]

\* ~scoped_queue(): if (photon::now < _ts_end) the task sleeps.
NeverSleep(tnow, ts_end) == FALSE
MustSleep(tnow, ts_end) == tnow < ts_end

\* One task runs from its position to its next suspension point, at time t: the
\* constructors of scoped_throttle's members in declaration order, split_io
\* up to the call of the underlying file, and after it the destructors in
\* reverse order.  S = [taken, tq, tk] is the shared state and the task.
RECURSIVE Advance(_, _)
Advance(S0, t) ==
    CHOOSE R \in {
    LET tk == S.tk
        j == tk.qi
        k == QKey(j, tk.t2)
        q == S.tq[k][QKind(j)]
    IN
    CASE tk.pc = "sem1" ->
            \* sem1(t1.num_io, 1)
            IF CanWait(S.taken, "RW")
            THEN Advance([S EXCEPT !.taken["RW"] = @ + 1,
                                   !.tk.sems = Append(@, "RW"),
                                   !.tk.pc = "sem2"], t)
            ELSE S
      [] tk.pc = "sem2" ->
            \* sem2(t2.num_io, 1)
            IF CanWait(S.taken, tk.t2)
            THEN Advance([S EXCEPT !.taken[tk.t2] = @ + 1,
                                   !.tk.sems = Append(@, tk.t2),
                                   !.tk.pc = "q", !.tk.qi = 1], t)
            ELSE S
      [] tk.pc \in {"q", "fullchk"} ->
            \* scoped_queue(q, count): q.push_back(_amount); _ts_end = ...
            CHOOSE R1 \in {
            IF r.out = "done"
            THEN Advance([S EXCEPT !.tq[k][QKind(j)] = r.q,
                                   !.tk.ts[j] = PhotonNow(t) + MinDuration(r.q),
                                   !.tk.npush = @ + 1,
                                   !.tk.bytes = IF QKind(j) = "throughput"
                                                THEN Amount32(q, QAmount(j, tk.count))
                                                ELSE @,
                                   !.tk.qi = IF j = 4 THEN 0 ELSE j + 1,
                                   !.tk.pc = IF j = 4 THEN "io" ELSE "q"], t)
            ELSE [S EXCEPT !.tq[k][QKind(j)] = r.q,
                           !.tk.pc = r.out, !.tk.wake = r.wake, !.tk.lnow = r.lnow] :
            r \in {IF tk.pc = "q"
                   THEN PushCheck(q, QAmount(j, tk.count), t)
                   ELSE FullCheck(q, QAmount(j, tk.count), tk.lnow, t)}} : TRUE
      [] tk.pc = "io" ->
            \* split_io: the next call of the underlying file
            [S EXCEPT !.log = IF tk.left = tk.count
                              THEN Append(@, [at |-> t, dir |-> tk.dir]) ELSE @,
                      !.tk.pc = "in_call",
                      !.tk.ncall = @ + 1,
                      !.tk.len = IF tk.bs = 0 \/ tk.count <= tk.bs
                                 THEN tk.count
                                 ELSE IF tk.left > tk.bs THEN tk.bs ELSE tk.left]
      [] tk.pc = "dq" ->
            \* ~scoped_queue(): sleep until _ts_end, then _q.try_pop()
            IF MustSleep(PhotonNow(t), tk.ts[j])
            THEN [S EXCEPT !.tk.pc = "dsleep"]
            ELSE Advance([S EXCEPT !.tq[k][QKind(j)] = TryPop(q, t),
                                   !.tk.qi = j - 1,
                                   !.tk.pc = IF j = 1 THEN "rel" ELSE "dq"], t)
      [] tk.pc = "rel" ->
            \* ~scoped_semaphore() of sem2, then of sem1
            [S EXCEPT !.taken[Signalled(tk, 2)] = @ - 1,
                      !.taken[Signalled(tk, 1)] = S.taken[Signalled(tk, 1)] - 1,
                      !.tk = [IdleTask EXCEPT !.ret = tk.ret]]
      [] OTHER -> S
    : S \in {S0}} : TRUE

ThrottleState(tk) == [taken |-> taken, tq |-> tq, tk |-> tk, log |-> tlog]

SetThrottleState(t, S0) ==
    \E S \in {S0} :
        /\ taken' = S.taken
        /\ tq' = S.tq
        /\ tt' = [tt EXCEPT ![t] = S.tk]
        /\ tlog' = S.log

\* Before the file is constructed; a constructed one has time_window >= 1.
NoLimits ==
    [RW |-> [concurent_ops |-> 0, IOPS |-> 0, throughput |-> 0, block_size |-> 0],
     R  |-> [concurent_ops |-> 0, IOPS |-> 0, throughput |-> 0, block_size |-> 0],
     W  |-> [concurent_ops |-> 0, IOPS |-> 0, throughput |-> 0, block_size |-> 0],
     time_window |-> 0]

ThrottleInit ==
    /\ tlim = NoLimits
    /\ taken = [k \in ThrottleKeys |-> 0]
    /\ tq = [k \in ThrottleKeys |->
               [iops |-> ThrottleQueue(0, 0, NowInit),
                throughput |-> ThrottleQueue(0, 0, NowInit)]]
    /\ tt = [t \in TTasks |-> IdleTask]
    /\ tios = 0
    /\ tlog = <<>>

\* new_throttled_file(file, limits): ThrottledFile's constructor builds
\* t_all, t_read and t_write from the limits.
TNew(limits) ==
    /\ tlim = NoLimits
    /\ tlim' = limits
    /\ tq' = [k \in ThrottleKeys |->
               [iops |-> ThrottleQueue(limits[k].IOPS, limits.time_window, now),
                throughput |-> ThrottleQueue(limits[k].throughput, limits.time_window, now)]]
    /\ UNCHANGED <<now, taken, tt, tios, tlog>>
    /\ UNCHANGED otherThanThrottle

\* The same for throughput limits that are multiples of 2^UnitBits bytes
\* per second, on a file whose IOs are multiples of 2^UnitBits bytes: the
\* throughput queues count in that unit.
TNewWide(limits) ==
    /\ tlim = NoLimits
    /\ tlim' = limits
    /\ tq' = [k \in ThrottleKeys |->
               [iops |-> ThrottleQueue(limits[k].IOPS, limits.time_window, now),
                throughput |-> WideQueue(limits[k].throughput, limits.time_window, now)]]
    /\ UNCHANGED <<now, taken, tt, tios, tlog>>
    /\ UNCHANGED otherThanThrottle

\* A task calls one of the twelve read/write entry points; n bounds the
\* IOs of one behaviour.
TStartUpTo(t, op, count, n) ==
    /\ tlim # NoLimits
    /\ tt[t].pc = "idle"
    /\ tios < n
    /\ tios' = tios + 1
    /\ SetThrottleState(t, Advance(ThrottleState(
           [IdleTask EXCEPT !.pc = "sem1", !.dir = Dir(op), !.t2 = T2(op),
                            !.bs = BlockSize(op), !.count = count, !.left = count]), now))
    /\ UNCHANGED <<now, tlim>>
    /\ UNCHANGED otherThanThrottle

TStart(t, op, count) == TStartUpTo(t, op, count, MaxIOs)

\* A task waiting in semaphore::wait is resumed after a signal.
TSemWake(t) ==
    /\ tt[t].pc \in {"sem1", "sem2"}
    /\ CanWait(taken, IF tt[t].pc = "sem1" THEN "RW" ELSE tt[t].t2)
    /\ SetThrottleState(t, Advance(ThrottleState(tt[t]), now))
    /\ UNCHANGED <<now, tlim, tios>>
    /\ UNCHANGED otherThanThrottle

\* push_back after its suspension (wait_for_pop timed out and thread_yield
\* returned): now = try_pop(), then the while test again; or, inside
\* while (m_events.full()), try_pop() and that loop's test again.
Resumed(t) ==
    LET j == tt[t].qi
        k == QKey(j, tt[t].t2)
    IN IF tt[t].pc = "full"
       THEN Advance(ThrottleState([tt[t] EXCEPT !.pc = "fullchk"]), now)
       ELSE Advance([ThrottleState([tt[t] EXCEPT !.pc = "q"])
                        EXCEPT !.tq[k][QKind(j)] = TryPop(@, now)], now)
TQResume(t) ==
    /\ \/ tt[t].pc = "park" /\ now >= tt[t].wake
       \/ tt[t].pc \in {"yield", "full"}
    /\ SetThrottleState(t, Resumed(t))
    /\ UNCHANGED <<now, tlim, tios>>
    /\ UNCHANGED otherThanThrottle

\* The underlying file returns ret for the call of tt[t].len bytes;
\* split_io goes on to its next call or returns, and the scoped_throttle
\* is destroyed.
TInnerReturn(t, ret) ==
    /\ tt[t].pc = "in_call"
    /\ ret \in -1..tt[t].len
    /\ LET tk == tt[t]
           single == tk.bs = 0 \/ tk.count <= tk.bs
           next ==
             IF single
             THEN [tk EXCEPT !.pc = "dq", !.qi = 4, !.ret = ret]
             ELSE IF ret < tk.len
             THEN [tk EXCEPT !.pc = "dq", !.qi = 4,
                             !.ret = IF ret >= 0 THEN tk.cnt + ret ELSE -1]
             ELSE IF tk.left - ret > 0
             THEN [tk EXCEPT !.pc = "io", !.left = @ - ret, !.cnt = @ + ret]
             ELSE [tk EXCEPT !.pc = "dq", !.qi = 4, !.left = 0, !.cnt = @ + ret,
                             !.ret = tk.cnt + ret]
       IN SetThrottleState(t, Advance(ThrottleState(next), now))
    /\ UNCHANGED <<now, tlim, tios>>
    /\ UNCHANGED otherThanThrottle

\* ~scoped_queue(): thread_usleep(_ts_end - photon::now) is over; try_pop.
TSleepWake(t) ==
    /\ tt[t].pc = "dsleep"
    /\ PhotonNow(now) >= tt[t].ts[tt[t].qi]
    /\ LET j == tt[t].qi
           k == QKey(j, tt[t].t2)
       IN SetThrottleState(t, Advance(
              [ThrottleState([tt[t] EXCEPT !.qi = j - 1,
                                           !.pc = IF j = 1 THEN "rel" ELSE "dq"])
                  EXCEPT !.tq[k][QKind(j)] = TryPop(@, now)], now))
    /\ UNCHANGED <<now, tlim, tios>>
    /\ UNCHANGED otherThanThrottle

\* Time passes.
TTickUpTo(n) ==
    /\ tlim # NoLimits
    /\ now < NowInit + TickMs * n
    /\ now' = now + TickMs
    /\ tlog' = SelectSeq(tlog, LAMBDA e : now' - e.at < OneSecond)
    /\ UNCHANGED <<tlim, taken, tq, tt, tios>>
    /\ UNCHANGED otherThanThrottle

TTick == TTickUpTo(TMaxTicks)

\* Entry points that hand the same direction, Throttle and block size to
\* scoped_throttle and split_io start the same IO: one of each kind is tried.
SameIO(o, p) == Dir(o) = Dir(p) /\ T2(o) = T2(p) /\ BlockSize(o) = BlockSize(p)
OpsTried == {op \in IOOps : op = CHOOSE o \in IOOps : SameIO(o, op)}

ThrottleNext ==
    \/ \E l \in LimitChoices : TNew(l)
    \/ \E t \in TTasks, op \in OpsTried, c \in {1, MaxCount} : TStart(t, op, c)
    \/ \E t \in TTasks : TSemWake(t)
    \/ \E t \in TTasks : TQResume(t)
    \/ \E t \in TTasks :
         \E r \in {-1, tt[t].len - 1, tt[t].len} : TInnerReturn(t, r)
    \/ \E t \in TTasks : TSleepWake(t)
    \/ TTick

\* A read limit of gigabytes per second, nothing else limited.
WideLimits ==
    [RW |-> [concurent_ops |-> 0, IOPS |-> 0, throughput |-> 0, block_size |-> 0],
     R  |-> [concurent_ops |-> 2, IOPS |-> 0, throughput |-> MaxRate, block_size |-> 0],
     W  |-> [concurent_ops |-> 0, IOPS |-> 0, throughput |-> 0, block_size |-> 0],
     time_window |-> 1]

\* What one task does after a suspension.
TaskStep(t) ==
    \/ TSemWake(t)
    \/ TQResume(t)
    \/ \E r \in {-1, tt[t].len - 1, tt[t].len} : TInnerReturn(t, r)
    \/ TSleepWake(t)

\* A task that cannot go on before the clock moves: its timed wait is not
\* over, or it yields and finds what it found before.
WaitsForTime(t) ==
    \/ tt[t].pc = "park" /\ now < tt[t].wake
    \/ tt[t].pc = "dsleep" /\ PhotonNow(now) < tt[t].ts[tt[t].qi]
    \/ /\ tt[t].pc \in {"yield", "full"}
       /\ \E S \in {Resumed(t)} : S.tk = tt[t] /\ S.tq = tq
\* A task the scheduler can resume now.
Ready(t) ==
    /\ tt[t].pc # "idle"
    /\ ~WaitsForTime(t)
    /\ tt[t].pc = "sem1" => CanWait(taken, "RW")
    /\ tt[t].pc = "sem2" => CanWait(taken, tt[t].t2)

\* The scheduler runs the tasks that are ready; when none is and a task
\* waits for the clock, time passes.
TLiveTick ==
    /\ \E t \in TTasks : WaitsForTime(t)
    /\ \A t \in TTasks : ~Ready(t)
    /\ TTickUpTo(TLiveTicks)

\* The file with IOs of up to 2^AmountBits bytes and more when its
\* throughput is counted in gigabytes.
ThrottleWideNext ==
    \/ \E l \in LimitChoices : TNew(l)
    \/ TNewWide(WideLimits)
    \/ \E t \in TTasks, op \in OpsTried, c \in {1, AmountWrap, AmountWrap + 1} :
          TStart(t, op, c)
    \/ \E t \in TTasks : TaskStep(t)
    \/ TTick

\* The file over a span of time long enough for every wait to end.
ThrottleLiveNext ==
    \/ \E l \in LimitChoices : TNew(l)
    \/ TNewWide(WideLimits)
    \/ \E t \in TTasks, op \in OpsTried, c \in {1, MaxCount} : TStartUpTo(t, op, c, LiveIOs)
    \/ \E t \in TTasks : TaskStep(t)
    \/ TLiveTick

\* ========================================================================
\* split_io and split_iovector_view (throttled-file.cpp): one IO at a time
\* on a throttled file without limits, byte by byte
\* ========================================================================
MaxSegs == 2         \* iovecs in one vectored IO
MaxSegLen == 3       \* bytes in one iovec
MaxBlock == 7        \* block sizes run over 0..MaxBlock
OffsetO == 2         \* the file offset of an IO is 0 or OffsetO
ScenarioD == <<5, 10>>

Forms == {"plain", "vec", "vec_mutable"}
SegLens == UNION {[1..n -> 1..MaxSegLen] : n \in 1..MaxSegs} \cup {ScenarioD}

RECURSIVE SumLens(_)
SumLens(ls) == IF ls = <<>> THEN 0 ELSE Head(ls) + SumLens(Tail(ls))

TotalMax == IF MaxSegs * MaxSegLen > SumLens(ScenarioD)
            THEN MaxSegs * MaxSegLen ELSE SumLens(ScenarioD)
FileOffs == 0..(OffsetO + TotalMax - 1)
BufAddrs == 0..(TotalMax - 1)

\* The caller's data: the byte at address a of the buffer it writes from.
Data(a) == a + 1

\* The caller's iovec array over one buffer, segment after segment.
MakeIov(ls) ==
    [i \in 1..Len(ls) |-> [iov_base |-> SumLens(SubSeq(ls, 1, i - 1)), iov_len |-> ls[i]]]

\* What a read of the element one past the end of the array yields: front()
\* of an empty view.  The value is never used afterwards.
PastEnd == [iov_base |-> -1, iov_len |-> 0]
NoView == [arr |-> <<>>,
           v |-> [iov |-> 1, iovcnt |-> 0, f0 |-> PastEnd, b0 |-> PastEnd,
                  remaining |-> 0, count |-> 0, block_size |-> 0]]

\* A view W is [arr, v]: the iovec array it works on and the fields of
\* split_iovector_view; v.iov is the index in arr of the view's first element.
Front(W) == IF W.v.iov <= Len(W.arr) THEN W.arr[W.v.iov] ELSE PastEnd
BackIdx(W) == W.v.iov + W.v.iovcnt - 1

RECURSIVE PrefixLen(_, _)
PrefixLen(W, i) ==
    IF i = 0 THEN 0 ELSE W.arr[W.v.iov + i - 1].iov_len + PrefixLen(W, i - 1)

\* iovector_view::shrink_less_than: the view is cut after the element in
\* which the block boundary falls; the result is the number of bytes of
\* that element beyond the boundary.
ShrinkLessThan(W, size) ==
    LET hit == {i \in 1..W.v.iovcnt : PrefixLen(W, i) >= size}
    IN IF hit = {} THEN [iovcnt |-> W.v.iovcnt, remaining |-> 0]
       ELSE LET i == CHOOSE i \in hit : \A j \in hit : i <= j
            IN [iovcnt |-> i, remaining |-> PrefixLen(W, i) - size]

DoShrinkWhole(W, block_size) ==
    [W EXCEPT !.v.remaining = 0, !.v.b0 = W.arr[BackIdx(W)]]
DoShrink(W, block_size) ==
    LET r == ShrinkLessThan(W, block_size)
        b == W.v.iov + r.iovcnt - 1
    IN [arr |-> [W.arr EXCEPT ![b].iov_len = @ - r.remaining],
        v |-> [W.v EXCEPT !.iovcnt = r.iovcnt, !.remaining = r.remaining,
                          !.b0 = W.arr[b]]]

InitView(W, block_size) == DoShrink([W EXCEPT !.v.f0 = Front(W)], block_size)

NewView(arr, block_size) ==
    InitView([arr |-> arr,
              v |-> [iov |-> 1, iovcnt |-> Len(arr), f0 |-> PastEnd, b0 |-> PastEnd,
                     remaining |-> 0,
                     count |-> SumLens([i \in 1..Len(arr) |-> arr[i].iov_len]),
                     block_size |-> block_size]], block_size)

NextView(W) ==
    LET W1 == IF W.v.iovcnt > 1 THEN [W EXCEPT !.arr[W.v.iov] = W.v.f0] ELSE W
        b == BackIdx(W1)
        bs == W1.v.block_size
    IN IF W1.v.remaining = 0
       THEN InitView([arr |-> [W1.arr EXCEPT ![b] = W1.v.b0],
                      v |-> [W1.v EXCEPT !.iov = b + 1, !.iovcnt = Len(W1.arr) - b]], bs)
       ELSE LET adv == [W1.arr[b] EXCEPT !.iov_base = @ + W1.arr[b].iov_len]
            IN IF W1.v.remaining < bs
               THEN DoShrink(
                      [arr |-> [W1.arr EXCEPT ![b] = [adv EXCEPT !.iov_len = W1.v.remaining]],
                       v |-> [W1.v EXCEPT !.iov = b, !.iovcnt = Len(W1.arr) - b + 1,
                                          !.f0 = W1.v.b0]], bs)
               ELSE [arr |-> [W1.arr EXCEPT ![b] = [adv EXCEPT !.iov_len = bs]],
                     v |-> [W1.v EXCEPT !.iov = b, !.iovcnt = 1, !.remaining = @ - bs]]

\* The buffer addresses iov[0..iovcnt) of a view covers, in order.
RECURSIVE ViewAddrs(_, _, _)
ViewAddrs(arr, i, n) ==
    IF n = 0 THEN <<>>
    ELSE [k \in 1..arr[i].iov_len |-> arr[i].iov_base + k - 1] \o ViewAddrs(arr, i + 1, n - 1)

\* The addresses the func lambda of an entry point hands to m_file.
FuncAddrs(io, len) ==
    IF io.form = "plain" THEN [k \in 1..len |-> io.buf + k - 1]
    ELSE ViewAddrs(io.W.arr, io.W.v.iov, io.W.v.iovcnt)

\* split_io, a short sub-operation: what it returns.
ShortReturnRaw(cnt, ret) == ret
ShortReturn(cnt, ret) == IF ret >= 0 THEN ret + cnt ELSE -1

\* LOG_ERRNO_RETURN(0, retv, ...): logs, and returns retv with errno as it
\* was when the macro was entered.
LogErrnoReturn(eno, retv) == [ret |-> retv, errno |-> eno]

SplitLen(count, block_size) == IF count > block_size THEN block_size ELSE count

IdleIO == [pc |-> "idle", dir |-> "R", form |-> "plain", bs |-> 0, single |-> TRUE,
           total |-> 0, off0 |-> 0, count |-> 0, cnt |-> 0, offset |-> 0, buf |-> 0,
           len |-> 0, W |-> NoView, iov0 |-> <<>>, errno |-> "none", full |-> TRUE,
           short |-> [at |-> 0, r |-> 0, cnt |-> 0, errno |-> "none"]]

\* func(len) is called: the underlying operation is in progress.
IssueCall(io, len) ==
    /\ sio' = [io EXCEPT !.pc = "call", !.len = len]
    /\ scalls' = Append(IF io.cnt = 0 /\ io.pc = "idle" THEN <<>> ELSE scalls,
                        [off |-> io.offset, addrs |-> FuncAddrs(io, len)])

\* The IO returns to its caller.
ReturnIO(io, r) ==
    /\ sio' = [IdleIO EXCEPT !.errno = r.errno]
    /\ sres' = Append(sres, [dir |-> io.dir, form |-> io.form, bs |-> io.bs,
                             total |-> io.total, off |-> io.off0, ret |-> r.ret,
                             errno |-> r.errno, full |-> io.full, short |-> io.short,
                             single |-> io.single, calls |-> Len(scalls),
                             iov0 |-> io.iov0,
                             iov |-> IF io.form = "vec_mutable" THEN io.W.arr ELSE io.iov0])
    /\ UNCHANGED scalls

\* Of an IO that returned before the latest one, the caller keeps what it
\* transferred and what it returned.
Brief(r) == [r EXCEPT !.form = "plain", !.bs = 0, !.single = TRUE, !.calls = 0,
                      !.iov0 = <<>>, !.iov = <<>>, !.short = IdleIO.short]

SplitInit ==
    /\ sfile = [o \in FileOffs |-> 0]
    /\ sbuf = [a \in BufAddrs |-> 0]
    /\ sio = IdleIO
    /\ scalls = <<>>
    /\ sres = <<>>

\* pwrite / pwritev / pwritev_mutable / pread / preadv / preadv_mutable is
\* called: the view is built and split_io makes its first call of func.
SStart(dir, form, ls, bs, off) ==
    /\ sio.pc = "idle"
    /\ form = "plain" => Len(ls) = 1
    /\ IF dir = "W" THEN sres = <<>>
       ELSE /\ Len(sres) = 1
            /\ sres[1].full
            /\ sres[1].total = SumLens(ls)
            /\ sres[1].off = off
    /\ LET count == SumLens(ls)
           single == bs = 0 \/ count <= bs
           io == [IdleIO EXCEPT !.dir = dir, !.form = form, !.bs = bs, !.single = single,
                                !.total = count, !.off0 = off, !.count = count,
                                !.offset = off, !.errno = sio.errno,
                                !.W = IF form = "plain" THEN NoView
                                      ELSE NewView(MakeIov(ls), bs),
                                !.iov0 = IF form = "plain" THEN <<>> ELSE MakeIov(ls)]
       IN IssueCall(io, IF single THEN count ELSE SplitLen(count, bs))
    /\ sres' = [i \in DOMAIN sres |-> Brief(sres[i])]
    /\ UNCHANGED <<sfile, sbuf>>
    /\ UNCHANGED otherThanSplit

\* The underlying operation returns ret: the bytes it was asked for, one
\* byte less, or -1 with errno set.  split_io goes on to its next call of
\* func or returns.
SInner(ret) ==
    /\ sio.pc = "call"
    /\ LET req == scalls[Len(scalls)].addrs
           n == Len(req)
           io0 == [sio EXCEPT !.errno = IF ret < 0 THEN "EIO" ELSE @,
                              !.full = @ /\ ret = n]
           moved == IF ret > 0 THEN ret ELSE 0
       IN /\ ret \in {n, n - 1, -1}
          /\ IF sio.dir = "W"
             THEN /\ sfile' = [o \in FileOffs |->
                                 IF o >= sio.offset /\ o < sio.offset + moved
                                 THEN Data(req[o - sio.offset + 1]) ELSE sfile[o]]
                  /\ UNCHANGED sbuf
             ELSE /\ sbuf' = [a \in BufAddrs |->
                                 IF \E k \in 1..moved : req[k] = a
                                 THEN sfile[sio.offset + (CHOOSE k \in 1..moved : req[k] = a) - 1]
                                 ELSE sbuf[a]]
                  /\ UNCHANGED sfile
          /\ IF io0.single
             THEN ReturnIO(io0, [ret |-> ret, errno |-> io0.errno])
             ELSE IF ret < io0.len
             THEN ReturnIO([io0 EXCEPT !.short = [at |-> Len(scalls), r |-> ret,
                                                  cnt |-> io0.cnt, errno |-> io0.errno]],
                           LogErrnoReturn(io0.errno, ShortReturn(io0.cnt, ret)))
             ELSE LET io1 == [io0 EXCEPT !.offset = @ + ret,
                                         !.buf = IF io0.form = "plain" THEN @ + ret ELSE @,
                                         !.W = IF io0.form = "plain" THEN @ ELSE NextView(@),
                                         !.count = @ - ret,
                                         !.cnt = @ + ret]
                  IN IF io1.count > 0
                     THEN IssueCall(io1, SplitLen(io1.count, io1.bs)) /\ UNCHANGED sres
                     ELSE ReturnIO(io1, [ret |-> io1.cnt, errno |-> io1.errno])
    /\ UNCHANGED otherThanSplit

\* The IOs a caller may start now: a write first, then a read of the bytes
\* written.
StartDirs == IF sio.pc # "idle" THEN {}
             ELSE IF sres = <<>> THEN {"W"}
             ELSE IF Len(sres) = 1 THEN {"R"} ELSE {}
StartLens(dir) == IF dir = "W" THEN SegLens
                  ELSE {ls \in SegLens : SumLens(ls) = sres[1].total}
StartOffs(dir) == IF dir = "W" THEN {0, OffsetO} ELSE {sres[1].off}

SplitNext ==
    \/ \E dir \in StartDirs :
         \E form \in Forms, ls \in StartLens(dir), bs \in 0..MaxBlock, off \in StartOffs(dir) :
             SStart(dir, form, ls, bs, off)
    \/ \E ret \in IF sio.pc = "call"
                   THEN {sio.len, sio.len - 1, -1, Len(scalls[Len(scalls)].addrs)}
                   ELSE {} : SInner(ret)

\* ========================================================================
\* FileCacheStore (cache/full_file_cache/cache_store.cpp) over its cache
\* pool and its local files
\* ========================================================================
kDiskBlockSize == 512
MaxCacheOps == 3     \* preadv / pwritev calls in one behaviour
MaxWriteBlocks == 2  \* disk blocks one pwritev can add to a local file
CapBlocks == 4       \* the pool is full once it accounts for this many blocks

Stores == {"s1", "s2", "s3"}

RECURSIVE SumSpace(_, _)
SumSpace(space, S) ==
    IF S = {} THEN 0
    ELSE LET s == CHOOSE x \in S : TRUE IN space[s] + SumSpace(space, S \ {s})

\* FileCachePool, as far as the store uses it: the LRU list (most recently
\* used first), the space accounted to each store, and the recycle request.
IsFull(pool) == SumSpace(pool.space, Stores) >= kDiskBlockSize * CapBlocks
UpdateLru(pool, s) ==
    [pool EXCEPT !.lru = <<s>> \o SelectSeq(pool.lru, LAMBDA x : x # s)]
UpdateSpace(pool, s, size) == [pool EXCEPT !.space[s] = size]
ForceRecycle(pool) == [pool EXCEPT !.recycle = TRUE]

\* pwritev after do_pwritev returned ret > 0: fstat, then the pool updates.
AfterFstatAlways(pool, s, err, st_blocks) ==
    UpdateSpace(UpdateLru(pool, s), s, kDiskBlockSize * st_blocks)
AfterFstat(pool, s, err, st_blocks) ==
    IF err # 0 THEN pool
    ELSE UpdateSpace(UpdateLru(pool, s), s, kDiskBlockSize * st_blocks)

NoCacheOp == [n |-> 0, op |-> "none", s |-> "s1", wret |-> 0, fstat |-> 0,
              ret |-> 0, errno |-> "none"]

CacheInit ==
    /\ cpool = [lru |-> <<"s1", "s2", "s3">>, space |-> [s \in Stores |-> 0],
                recycle |-> FALSE]
    /\ clocal = [s \in Stores |-> 0]
    /\ clast = NoCacheOp

\* FileCacheStore::preadv
CPreadv(s, ret) ==
    /\ clast.n < MaxCacheOps
    /\ cpool' = UpdateLru(cpool, s)
    /\ clast' = [NoCacheOp EXCEPT !.n = clast.n + 1, !.op = "preadv", !.s = s, !.ret = ret,
                                  !.errno = IF ret < 0 THEN "EIO" ELSE clast.errno]
    /\ UNCHANGED clocal
    /\ UNCHANGED otherThanCache

\* FileCacheStore::pwritev: the local pwritev returns wret (with errno e when
\* it fails) and, when it is called, the local fstat returns err.
CPwritev(s, wret, e, err) ==
    /\ clast.n < MaxCacheOps
    /\ IF IsFull(cpool)
       THEN /\ clast' = [NoCacheOp EXCEPT !.n = clast.n + 1, !.op = "pwritev", !.s = s,
                                          !.ret = -1, !.errno = "ENOSPC"]
            /\ UNCHANGED <<cpool, clocal>>
       ELSE LET eno == IF wret < 0 THEN e ELSE clast.errno
                pool1 == IF wret < 0 /\ eno = "ENOSPC" THEN ForceRecycle(cpool) ELSE cpool
                blocks == IF wret > 0 THEN clocal[s] + wret ELSE clocal[s]
                eno2 == IF wret > 0 /\ err # 0 THEN "EIO" ELSE eno
                r == IF wret > 0 /\ err # 0 THEN LogErrnoReturn(eno2, wret)
                     ELSE [ret |-> wret, errno |-> eno2]
            IN /\ clocal' = [clocal EXCEPT ![s] = blocks]
               /\ cpool' = IF wret > 0 THEN AfterFstat(pool1, s, err, blocks) ELSE pool1
               /\ clast' = [n |-> clast.n + 1, op |-> "pwritev", s |-> s, wret |-> wret,
                            fstat |-> IF wret > 0 THEN err ELSE 0,
                            ret |-> r.ret, errno |-> r.errno]
    /\ UNCHANGED otherThanCache

\* The pool recycles: the least recently used store is emptied.
CRecycle ==
    /\ cpool.recycle \/ IsFull(cpool)
    /\ LET s == cpool.lru[Len(cpool.lru)]
       IN /\ cpool' = [cpool EXCEPT !.space[s] = 0, !.recycle = FALSE]
          /\ clocal' = [clocal EXCEPT ![s] = 0]
    /\ UNCHANGED clast
    /\ UNCHANGED otherThanCache

CacheNext ==
    \/ \E s \in Stores, ret \in {-1, 1} : CPreadv(s, ret)
    \/ \E s \in Stores, wret \in -1..MaxWriteBlocks, e \in {"ENOSPC", "EIO"}, err \in {0, -1} :
          CPwritev(s, wret, e, err)
    \/ CRecycle

\* ========================================================================
\* Specifications
\* ========================================================================
Init == AdaptorInit /\ PerfInit /\ QueueInit /\ ThrottleInit /\ SplitInit
        /\ CacheInit

vars == <<adaptorVars, perfVars, queueVars, throttleVars, splitVars, cacheVars>>

SpecThrottle == Init /\ [][ThrottleNext]_vars

SpecThrottleWide == Init /\ [][ThrottleWideNext]_vars

\* Time advances, every call of the underlying file returns, and the
\* scheduler resumes every task that can go on.
SpecThrottleLive ==
    /\ Init /\ [][ThrottleLiveNext]_vars
    /\ WF_vars(TLiveTick)
    /\ \A t \in TTasks : WF_vars(TaskStep(t))

SpecQueue == Init /\ [][QueueNext]_vars

SpecQueueRebase == Init /\ [][QueueRebaseNext]_vars

SpecQueueWide == Init /\ [][QueueWideNext]_vars

SpecQueueTail == Init /\ [][QueueTailNext]_vars

SpecQueueFull == Init /\ [][QueueFullNext]_vars

\* Time keeps advancing, and the scheduler resumes a task whose timed wait
\* is over or that has yielded.
SpecQueueLive == Init /\ [][QueueLiveNext]_vars /\ WF_vars(QLiveProgress)

SpecSplit == Init /\ [][SplitNext]_vars

SpecCache == Init /\ [][CacheNext]_vars

SpecAdaptor == Init /\ [][AdaptorNext]_vars

SpecTh == Init /\ [][ThNext]_vars

SpecAsync == Init /\ [][AsyncNext]_vars

SpecExport == Init /\ [][ExportNext]_vars

\* Every thread that can take a step takes one in the end, and the mutex is
\* given to a thread that waits for it while it is free.
ExportFairness ==
    /\ WF_vars(XWait) /\ WF_vars(XBlock) /\ WF_vars(XReacquire) /\ WF_vars(XReturn)
    /\ WF_vars(XOnDoneLock) /\ WF_vars(XOnDone) /\ WF_vars(XOnDoneReturn)
SpecExportLive == Init /\ [][ExportNext]_vars /\ ExportFairness

\* ------------------------------------------------------------------------
\* Claims about the performers
\* ------------------------------------------------------------------------

\* C5 (as stated): when the underlying operation fails with error code e,
\* the caller of the adaptor operation observes the failure return value
\* and e as its errno after the call returns.
C5_ErrnoPreserved ==
    \A res \in {resA, resX} :
        (res.perf # "none" /\ res.ures.set /\ res.ures.ret < 0) =>
            (res.ret = res.ures.ret /\ res.err = res.ures.err)

\* C28: with the export performer the calling OS thread returns from an
\* operation only after the completion callback has run and set the done
\* flag, and it returns the result the callback was given.
C28_ExportReturnsAfterCallback ==
    [][(pcX # "idle" /\ pcX' = "idle") =>
          /\ waiter.got_it /\ ~waiter.pending /\ waiter.ures.set
          /\ waiter.cb = "none"
          /\ resX'.n = nxcalls /\ resX'.ret = waiter.ures.ret]_vars
C28_Witness ==
    /\ resX.perf = "export" /\ resX.n = MaxCalls /\ resX.ures.set
    /\ resX.ret = -1 /\ pcX = "idle"

\* C29: no lost wake-up and no deadlock in the export performer: once the
\* completion callback has been called on the other thread, be it before or
\* after the calling thread started to wait on the condition variable, the
\* callback returns and the calling thread returns from the operation.
C29_ExportNoLostWakeup ==
    (waiter.cb = "called") ~> (waiter.cb = "none" /\ pcX = "idle")
C29_Witness ==
    waiter.cb = "called" /\ pcX = "issued" /\ waiter.mtx = "X"

\* C6 (as stated): a thread-dispatch operation returns only after the
\* spawned OS thread has finished the underlying call and stored its
\* result, and the value returned is that result.
C6_ThReturnsWorkerResult ==
    resA.perf = "th" =>
        /\ resA.wst \in {"stored", "finished"}
        /\ resA.ret = resA.ures.ret

\* C7: no blocking underlying call ever executes on the runtime's thread,
\* and a task parked in a thread-dispatch operation does not hold the
\* runtime, so other ready tasks can be resumed.
C7_SchedulerNeverBlocked ==
    /\ Vcpu \notin blocking
    /\ pcA = "th_parked" => cpu # "A"

\* C7 witness: B has run to its end while A is parked and the blocking call
\* of A's operation is still executing on the spawned thread.
C7_Witness ==
    /\ pcB = "done"
    /\ pcA = "th_parked"
    /\ wk[callA.n].st = "calling"
    /\ WorkerThread(callA.n) \in blocking

\* C8: an async operation whose completion never came returns -1 with
\* ETIMEDOUT, woken exactly when the configured timeout has elapsed (never
\* before, and it is not left parked past it); an operation whose
\* completion came returns the completion's result and error.
C8_AsyncTimeoutOrResult ==
    /\ pcA = "as_parked" => clock <= callA.start + AsyncTimeout
    /\ resA.perf = "async" =>
          IF resA.timedout
          THEN /\ resA.ret = -1
               /\ resA.err = "ETIMEDOUT"
               /\ resA.wokenAt = resA.start + AsyncTimeout
          ELSE /\ resA.ret = resA.ures.ret
               /\ resA.ures.ret < 0 => resA.err = resA.ures.err
               /\ resA.wokenAt <= resA.start + AsyncTimeout

\* C8 witness: the second operation timed out after the first one had
\* completed in time.
C8_Witness ==
    /\ resA.perf = "async"
    /\ resA.timedout
    /\ resA.n = 2
    /\ resA.start > 0

\* ------------------------------------------------------------------------
\* Claims about the throttled file
\* ------------------------------------------------------------------------

\* The IOs of direction d that are inside a call of the underlying file.
InCall(d) == {t \in TTasks : tt[t].pc = "in_call" /\ tt[t].dir = d}

\* C1 (as stated): under a concurrency limit C > 0 for a direction (R, W,
\* or RW for both together), at most C IOs of that direction are inside a
\* call of the underlying file, whatever entry points the tasks called.
C1_ConcurrencyLimit ==
    /\ \A d \in {"R", "W"} :
          tlim[d].concurent_ops > 0 => Cardinality(InCall(d)) <= tlim[d].concurent_ops
    /\ tlim.RW.concurent_ops > 0 =>
          Cardinality(InCall("R") \cup InCall("W")) <= tlim.RW.concurent_ops

\* The IOs of the last second that count against the IOPS limit of k.
LoggedIOs(k) ==
    {i \in DOMAIN tlog : tlog[i].dir \in (IF k = "RW" THEN {"R", "W"} ELSE {k})}

\* C12 (as stated): with an IOPS limit L > 0 on R, W or RW, the IOs of
\* that kind that reached the underlying file within any one second are
\* at most L.
C12_IopsLimit ==
    \A k \in ThrottleKeys :
        tlim[k].IOPS > 0 => Cardinality(LoggedIOs(k)) <= tlim[k].IOPS

\* C2 (as stated): an IO of one direction holds permits of, and admits
\* into the queues of, only its own direction's triplet and the combined
\* (RW) one: a write never touches the read triplet, nor a read the write
\* triplet.
C2_QuotasIndependent ==
    \A t \in TTasks :
        /\ \A i \in DOMAIN tt[t].sems : tt[t].sems[i] \in {"RW", tt[t].dir}
        /\ tt[t].qi \in 1..4 => QKey(tt[t].qi, tt[t].t2) \in {"RW", tt[t].dir}

\* ------------------------------------------------------------------------
\* Claims about the accounting queue
\* ------------------------------------------------------------------------

C13_OneSamplePerTimestamp ==
    \A i, j \in DOMAIN sq.events :
        i < j => GetTime(sq, sq.events[i].time_stamp) # GetTime(sq, sq.events[j].time_stamp)

\* ------------------------------------------------------------------------
\* Claims about scoped_throttle
\* ------------------------------------------------------------------------
\* C26 (as stated): each sub-operation of a split IO is accounted on its
\* own: when the n-th sub-operation is issued the IO has made n admissions
\* into each of its two IOPS queues and its two throughput queues, and the
\* amount last admitted into the throughput queues is that sub-operation's
\* byte count.
C26_SubOpsAccounted ==
    \A t \in TTasks :
        tt[t].pc = "in_call" =>
            /\ tt[t].npush = 4 * tt[t].ncall
            /\ tt[t].bytes = tt[t].len

\* C27: a queue with rate 0 is never changed and never makes a task wait:
\* its samples and its sum stay as constructed (so evict_expired removes
\* nothing), its min_duration is 0, and no task parks, yields or sleeps on
\* it; and when all limits of the file are 0 an IO goes from its start
\* straight to the underlying call and from its return straight to its
\* end, so that every task is always either idle or in the underlying call.
NoLimit(l) == \A k \in ThrottleKeys :
                 l[k].concurent_ops = 0 /\ l[k].IOPS = 0 /\ l[k].throughput = 0
WaitsOnQueue(tk) == tk.pc \in {"park", "yield", "full", "fullchk", "dsleep"}
C27_UnlimitedNeverDelays ==
    /\ \A k \in ThrottleKeys : \A kind \in {"iops", "throughput"} :
           LET q == tq[k][kind]
           IN q.rate = 0 =>
                 /\ q.events = <<>> /\ q.sum = 0
                 /\ TryPop(q, now).events = q.events /\ TryPop(q, now).sum = q.sum
                 /\ MinDuration(q) = 0
                 /\ \A t \in TTasks :
                        (WaitsOnQueue(tt[t]) /\ QKey(tt[t].qi, tt[t].t2) = k) =>
                            QKind(tt[t].qi) # kind
    /\ (tlim # NoLimits /\ NoLimit(tlim)) =>
           \A t \in TTasks : tt[t].pc \in {"idle", "in_call"}
C27_Witness ==
    /\ tlim # NoLimits /\ NoLimit(tlim)
    /\ \A t \in TTasks : tt[t].pc = "in_call" /\ tt[t].npush = 4 /\ tt[t].count = MaxCount

\* C30 (as stated): the throttled file is deadlock-free: whatever the
\* limits, every IO a task has started eventually completes, provided time
\* advances and every call of the underlying file returns.
C30_EveryIOCompletes ==
    \A t \in TTasks : (tt[t].pc # "idle") ~> (tt[t].pc = "idle")

\* C31: concurrency permits are conserved.  In every state each semaphore
\* has handed out exactly the permits that the IOs in flight hold, an IO
\* holding at most one combined and one per-direction permit; so whenever
\* no IO is in flight all three semaphores hold their initial permits,
\* whatever the IOs returned (a full count, a short count or an error).
Holders(k) == {h \in TTasks \X (1..2) : h[2] <= Len(tt[h[1]].sems) /\ tt[h[1]].sems[h[2]] = k}
C31_PermitsConserved ==
    /\ \A k \in ThrottleKeys : taken[k] = Cardinality(Holders(k))
    /\ \A t \in TTasks :
           /\ Len(tt[t].sems) <= 2
           /\ Len(tt[t].sems) >= 1 => tt[t].sems[1] = "RW"
           /\ Len(tt[t].sems) = 2 => tt[t].sems[2] \in {"R", "W"}
    /\ (\A t \in TTasks : tt[t].pc = "idle") => \A k \in ThrottleKeys : taken[k] = 0
\* Both IOs of a file that splits its writes are over, one with an error
\* and one with a count of 1, and no permit is out.
C31_Witness ==
    /\ tios = MaxIOs /\ tlim.W.block_size = 1
    /\ tt["t1"].pc = "idle" /\ tt["t1"].ret = -1
    /\ tt["t2"].pc = "idle" /\ tt["t2"].ret = 1
    /\ \A k \in ThrottleKeys : taken[k] = 0

\* C32 (as stated): the amount admitted into the throughput queues for an
\* IO is the IO's total byte count, for every count, those of 2^32 bytes
\* and more included.
C32_WholeCountAdmitted ==
    \A t \in TTasks : tt[t].pc = "in_call" => tt[t].bytes = tt[t].count

\* C33 (as stated): in every reachable state of an accounting queue the
\* absolute timestamps of its retained samples are non-decreasing from
\* head to tail, whatever the interleaving of the tasks, a task that
\* yields inside admit on a full FIFO and then inserts its sample included.
C33_StampsNonDecreasing ==
    \A i \in 1..(Len(sq.events) - 1) :
        GetTime(sq, sq.events[i].time_stamp) <= GetTime(sq, sq.events[i + 1].time_stamp)

\* C21: the permits are released last.  A task that is in the underlying
\* call or leaving its queues still holds both permits; min_duration is 0
\* for sum <= limit and (sum - limit) * 1048576 / rate us otherwise; and
\* in the step in which a task gives its permits back, the deadline of
\* each of its four queues (admission time + min_duration) has passed.
C21_PermitsReleasedLast ==
    /\ [](\A t \in TTasks :
            tt[t].pc \in {"io", "in_call", "dq", "dsleep"} =>
                /\ Len(tt[t].sems) = 2
                /\ \A i \in 1..2 : taken[tt[t].sems[i]] >= 1)
    /\ [](\A k \in ThrottleKeys : \A kind \in {"iops", "throughput"} :
            LET q == tq[k][kind]
            IN MinDuration(q) = IF q.rate = 0 \/ q.sum <= q.limit THEN 0
                                ELSE ((q.sum - q.limit) * 1048576) \div q.rate)
    /\ [][\A t \in TTasks :
            (Len(tt[t].sems) = 2 /\ tt'[t].sems = <<>>) =>
                /\ \A j \in 1..4 : PhotonNow(now') >= tt[t].ts[j]
                /\ taken' = [k \in ThrottleKeys |->
                               taken[k] - Cardinality({i \in 1..2 : tt[t].sems[i] = k})]]_vars
\* A task sleeps in ~scoped_queue, its deadline ahead, with both permits.
C21_Witness ==
    \E t \in TTasks :
        /\ tt[t].pc = "dsleep" /\ Len(tt[t].sems) = 2
        /\ tt[t].ts[tt[t].qi] > PhotonNow(now)
        /\ taken["RW"] >= 1 /\ taken[tt[t].sems[2]] >= 1

\* The queues a task has pushed into and not yet left.
Pushed(tk) ==
    CASE tk.pc \in {"io", "in_call"} -> 4
      [] tk.pc \in {"dq", "dsleep"} -> tk.qi
      [] tk.pc \in {"q", "fullchk", "park", "yield", "full"} -> tk.qi - 1
      [] OTHER -> 0
\* What a task holds, in the order it acquired it: <<triplet, resource, amount>>.
Acquired(tk) ==
    [i \in 1..Len(tk.sems) |-> <<tk.sems[i], "num_io", 1>>] \o
    [j \in 1..Pushed(tk) |-> <<QKey(j, tk.t2), QKind(j), QAmount(j, tk.count)>>]
AcquisitionOrder(dir, count) ==
    << <<"RW", "num_io", 1>>, <<dir, "num_io", 1>>,
       <<"RW", "iops", 1>>, <<dir, "iops", 1>>,
       <<"RW", "throughput", count>>, <<dir, "throughput", count>> >>

\* C20 (as stated): an IO acquires a permit of the RW semaphore, a permit of
\* the semaphore of its direction, 1 in the RW IOPS queue, 1 in the IOPS
\* queue of its direction, count in the RW throughput queue and count in
\* the throughput queue of its direction, in this order, and the
\* underlying file is called only when it holds all six.
C20_AcquisitionOrder ==
    \A t \in TTasks :
        LET tk == tt[t]
            got == Acquired(tk)
            order == AcquisitionOrder(tk.dir, tk.count)
        IN tk.pc \notin {"idle", "dq", "dsleep", "rel"} =>
              /\ Len(got) <= 6
              /\ got = SubSeq(order, 1, Len(got))
              /\ tk.pc = "in_call" => got = order

\* ------------------------------------------------------------------------
\* Claims about split_io and split_iovector_view
\* ------------------------------------------------------------------------
\* C15 (as stated): round trip.  After a write of K bytes at offset o and a
\* read of K bytes at o, both with every underlying operation full, the
\* write returned K, the read returned K and the read buffer holds the
\* bytes written, for every block size, form and partition into iovecs.
C15_RoundTrip ==
    (Len(sres) = 2 /\ sres[1].full /\ sres[2].full) =>
        /\ sres[1].ret = sres[1].total
        /\ sres[2].ret = sres[2].total
        /\ \A a \in 0..(sres[2].total - 1) : sbuf[a] = Data(a)

\* C25 (as stated): with block_size 0, or a total of at most block_size, the
\* IO calls the underlying operation exactly once, at the caller's offset,
\* over all the bytes of the caller's request (the whole count of a plain
\* form, every buffer at its full length of a vectored one).
WholeRequest(off, total) == [off |-> off, addrs |-> [k \in 1..total |-> k - 1]]
Unsplit(bs, total) == bs = 0 \/ total <= bs
C25_UnsplitWholeRequest ==
    /\ (sio.pc = "call" /\ Unsplit(sio.bs, sio.total)) =>
           scalls = <<WholeRequest(sio.off0, sio.total)>>
    /\ (sio.pc = "idle" /\ sres # <<>>) =>
           LET r == sres[Len(sres)]
           IN Unsplit(r.bs, r.total) => scalls = <<WholeRequest(r.off, r.total)>>

\* Call i of a vectored IO of S bytes at offset off split in blocks of B.
ExpectedCall(i, off, B, S) ==
    [off |-> off + (i - 1) * B,
     addrs |-> [k \in 1..((IF i * B < S THEN i * B ELSE S) - (i - 1) * B) |->
                   (i - 1) * B + k - 1]]
SplitVectored(form, bs, total) == form # "plain" /\ bs > 0 /\ total > bs

\* C16: a vectored IO of S > B > 0 bytes whose sub-operations are all full
\* makes call i at offset + i*B over exactly the bytes [i*B, min((i+1)*B, S))
\* of the caller's buffers, in order, and returns after ceil(S/B) calls.
C16_SequentialBlocks ==
    /\ (sio.pc = "call" /\ SplitVectored(sio.form, sio.bs, sio.total) /\ sio.full) =>
           \A i \in DOMAIN scalls :
               scalls[i] = ExpectedCall(i, sio.off0, sio.bs, sio.total)
    /\ (sio.pc = "idle" /\ sres # <<>>) =>
           LET r == sres[Len(sres)]
           IN (SplitVectored(r.form, r.bs, r.total) /\ r.full) =>
                 /\ Len(scalls) = (r.total + r.bs - 1) \div r.bs
                 /\ r.ret = r.total
                 /\ \A i \in DOMAIN scalls :
                        scalls[i] = ExpectedCall(i, r.off, r.bs, r.total)
C16_Witness ==
    /\ sio.pc = "idle" /\ Len(sres) = 2
    /\ sres[2].form = "vec" /\ sres[2].bs = 7 /\ sres[2].full
    /\ sres[2].iov0 = MakeIov(ScenarioD)
    /\ Len(scalls) = 3
    /\ Len(scalls[1].addrs) = 7 /\ Len(scalls[2].addrs) = 7 /\ Len(scalls[3].addrs) = 1

\* C17 (as stated): when a split vectored IO returns, every element of the
\* caller's iovec array has the base and the length it had at the call.
C17_IovecRestored ==
    \A i \in DOMAIN sres :
        (sres[i].form # "plain" /\ ~sres[i].single) => sres[i].iov = sres[i].iov0

\* C18: in a split IO, a sub-operation that returns r, less than it was
\* asked for, ends the IO with no further sub-operation: the IO returns
\* the bytes of the earlier sub-operations plus r when r >= 0, and -1 with
\* the errno of the sub-operation when r < 0.
C18_ShortEndsIO ==
    \A i \in DOMAIN sres :
        LET r == sres[i]
        IN (~r.single /\ r.short.at > 0) =>
              /\ r.calls = r.short.at
              /\ r.short.r >= 0 => r.ret = (r.short.at - 1) * r.bs + r.short.r
              /\ r.short.r < 0 => r.ret = -1 /\ r.errno = "EIO"
C18_Witness ==
    \E i \in DOMAIN sres :
        /\ ~sres[i].single /\ sres[i].short.at = 2
        /\ sres[i].short.r = -1 /\ sres[i].ret = -1 /\ sres[i].errno = "EIO"

\* ------------------------------------------------------------------------
\* Claim about the cache store
\* ------------------------------------------------------------------------
\* C19: when in FileCacheStore::pwritev the local pwritev returns n > 0 and
\* the fstat that follows fails, pwritev still returns n, and the step
\* leaves the store's LRU position and the space accounting as they were.
C19_FstatFailureKeepsCount ==
    [][(clast'.n # clast.n /\ clast'.op = "pwritev" /\ clast'.wret > 0
            /\ clast'.fstat # 0) =>
          /\ clast'.ret = clast'.wret
          /\ cpool'.lru = cpool.lru
          /\ cpool'.space = cpool.space]_vars
C19_Witness ==
    /\ clast.op = "pwritev" /\ clast.wret > 0 /\ clast.fstat # 0
    /\ clast.ret = clast.wret
    /\ cpool.lru[1] # clast.s
    /\ cpool.space[clast.s] # kDiskBlockSize * clocal[clast.s]

\* C22 (as stated): sum equals the sum of the amounts of the samples the
\* queue retains, in every state, also after admissions of the same
\* millisecond were merged into one 32-bit amount.
C22_SumIsSumOfAmounts ==
    sq.sum = SumAmounts(sq.events, 1, Len(sq.events))

\* C23 (as stated): when an admit or an evict_expired completes on a queue
\* with rate > 0, the queue retains no sample with timestamp + window <= now,
\* except a head sample whose working-time tail (amount / rate seconds) has
\* not yet passed.
AdmitCompletes ==
    \/ \E t \in QTasks : sqtask[t].pc # "idle" /\ sqtask'[t].pc = "idle"
    \/ sqn' = sqn + 1 /\ sqtask' = sqtask
EvictCompletes == now' = now /\ sqcfg' = sqcfg /\ sq' = TryPop(sq, now)
OutsideWindow(q, i, window, t) == GetTime(q, q.events[i].time_stamp) + window * MsPerSec <= t
TailPending(q, i, t) ==
    GetTime(q, q.events[i].time_stamp) + (q.events[i].amount \div q.rate) * MsPerSec > t
C23_NoExpiredSampleRemains ==
    [][(sqcfg.rate > 0 /\ (AdmitCompletes \/ EvictCompletes)) =>
          \A i \in 1..Len(sq'.events) :
              OutsideWindow(sq', i, sqcfg.window, now') => (i = 1 /\ TailPending(sq', i, now'))]_vars

\* C24 (as stated): every sample that one evict_expired call removes, the
\* first head and those behind it alike, is removed only when its own
\* working-time tail has passed: now >= timestamp + floor(amount / rate) s.
C24_EvictedAfterOwnTail ==
    [][(sqcfg.rate > 0 /\ EvictCompletes) =>
          \A i \in 1..(Len(sq.events) - Len(sq'.events)) : ~TailPending(sq, i, now)]_vars

\* C14 (as stated): the rebase is transparent.  In a step that moves
\* m_timestamp_base, every sample the queue retains keeps its absolute time
\* (base + stamp): each sample held after the step is at a time a sample
\* was at before it, or is the one admitted in this step at the current
\* time.
C14_RebaseKeepsTimes ==
    [][sq'.base # sq.base =>
         \A j \in DOMAIN sq'.events :
             \/ GetTime(sq', sq'.events[j].time_stamp) = now'
             \/ \E i \in DOMAIN sq.events :
                    GetTime(sq, sq.events[i].time_stamp)
                      = GetTime(sq', sq'.events[j].time_stamp)]_vars

\* C10 (as stated): for a queue with rate > 0 that starts empty, while the
\* amounts of the admits started total at most rate * time_window, no
\* admit has parked or yielded.
C10_NoSuspendWithinBudget ==
    sqreq <= sqcfg.rate * sqcfg.window => ~sqsusp

\* ------------------------------------------------------------------------
\* Claims about the adaptors
\* ------------------------------------------------------------------------

\* C3 (as stated): every adaptor operation invokes the same-named operation
\* of the underlying object exactly once, with the caller's arguments, and
\* returns its result; rename invokes rename.
C3_ForwardsSameOperation ==
    lastCall.op # "none" =>
        /\ Len(lastCall.ucalls) = 1
        /\ lastCall.ucalls[1].op = lastCall.op
        /\ lastCall.ucalls[1].arg = lastCall.arg
        /\ lastCall.ret = lastCall.uret

\* C4: the underlying object of an adaptor is destroyed exactly once, by the
\* adaptor's destruction, and by nothing else: it is intact while the
\* adaptor lives (whatever operations ran, close and closedir included) and
\* its delete count is 1 once the adaptor is destroyed.
C4_UifDeletedExactlyOnce ==
    \A i \in 1..Len(adaptors) :
        uifs[adaptors[i].uif].deleted = (IF adaptors[i].alive THEN 0 ELSE 1)

\* C4 witness: an xattr adaptor handed out by a filesystem adaptor has been
\* destroyed while the filesystem adaptor, destroyed too, released its own
\* object.
C4_Witness ==
    \E i, j \in 1..Len(adaptors) :
        /\ i # j
        /\ ~adaptors[i].alive /\ adaptors[i].xuif # 0 /\ adaptors[i].kind = "file"
        /\ uifs[adaptors[i].uif].deleted = 1
        /\ ~adaptors[j].alive /\ adaptors[j].kind = "fs"

\* C9 (as stated): every adaptor handed to a caller exposes the xattr
\* operations if and only if its underlying object implements the xattr
\* extension.
C9_XattrIffImplemented ==
    \A i \in 1..Len(adaptors) :
        (adaptors[i].xuif # 0) <=> uifs[adaptors[i].uif].xattr

====
